---- MODULE Spec2Model ----
(***************************************************************************)
(* A model of vivo: a small DSL whose scripts declare event-driven TCP     *)
(* servers.  The model follows src/src/main.rs (lex, parse, interpret),    *)
(* src/src/interpreter.rs (one task per server), src/src/runtime.rs (the   *)
(* accept loop, the per-connection task, trigger_event,                    *)
(* execute_statements, eval_expression) and src/src/template.rs            *)
(* (eval_template and the sub-parser of {{ ... }} markers).                *)
(*                                                                         *)
(* Texts are sequences of one-character strings.  An Option<T> is a        *)
(* sequence of length 0 (None) or 1 (Some).                                *)
(***************************************************************************)
EXTENDS Integers, Sequences, FiniteSets, TLC

VARIABLES
    main_pc,     \* position of main(): "lex", "parse", "interpret", "await", "exit"
    source,      \* the script handed to main(): its lex/parse outcome and its AST
    servers,     \* one record per server task spawned by interpret
    conns,       \* one record per accepted connection (its task, store, socket)
    faults,      \* number of I/O faults injected so far
    reads,       \* number of socket reads performed so far
    t_pc,        \* template harness: "call" before eval_template, "done" after
    t_s,         \* template harness: the string literal
    t_message,   \* template harness: Option<text>, the message of the context
    t_client,    \* template harness: Option<text>, the client of the context
    t_vars,      \* template harness: the variable store
    t_result,    \* template harness: the text eval_template returned
    h_pc,        \* function harness: "call" before the call, "done" after
    h_in,        \* function harness: the arguments of the call
    h_out        \* function harness: what the call returned

vars == <<main_pc, source, servers, conns, faults, reads,
          t_pc, t_s, t_message, t_client, t_vars, t_result,
          h_pc, h_in, h_out>>

runtime_vars == <<main_pc, source, servers, conns, faults, reads>>
template_vars == <<t_pc, t_s, t_message, t_client, t_vars, t_result>>
call_vars == <<h_pc, h_in, h_out>>
harness_vars == <<template_vars, call_vars>>

(***************************************************************************)
(* Bounds of the model.                                                    *)
(***************************************************************************)
MaxConns == 2      \* connections accepted in one run, over all servers
MaxReads == 2      \* socket reads performed in one run, over all connections
MaxFaults == 1     \* I/O faults (failed bind, accept, read, write) in one run
MaxLen == 5        \* length of the string literals given to eval_template
MaxRepeat == 2     \* largest Number argument given to a method
MaxSrc == 4        \* length of the sources given to lex
MaxStr == 6        \* length of the sources of string literals given to lex
MaxTokens == 5     \* number of tokens of the expressions given to the parser
MaxPort == 4       \* length of the port strings given to run_server
MaxStmts == 2      \* number of statements of the bodies given to execute_statements
MaxNum == 2        \* length of the operand texts given to a comparison
MaxVal == 2        \* length of the text bound to x when a method chain is evaluated
MaxChunks == 3     \* number of pieces ({{, }}, $s, a) of a client message

(***************************************************************************)
(* Texts and options.                                                      *)
(***************************************************************************)
None == << >>
Some(x) == <<x>>
unwrap_or(o, d) == IF Len(o) = 0 THEN d ELSE o[1]

Texts(alphabet, n) == UNION {[1..k -> alphabet] : k \in 0..n}

\* str::find for a two-character pattern: the 1-based index of the first
\* occurrence of <<a, b>> in s, 0 when there is none.
find2(s, a, b) ==
    LET hits == {i \in 1..(Len(s) - 1) : s[i] = a /\ s[i + 1] = b}
    IN IF hits = {} THEN 0 ELSE CHOOSE i \in hits : \A j \in hits : i <= j

\* &s[from..] with a 1-based from
suffix(s, from) == SubSeq(s, from, Len(s))

\* The characters of the model.  Every character is one byte in UTF-8
\* except the two forms of e-acute, which are two bytes.
LowerChars ==
    <<"a", "b", "c", "d", "e", "f", "g", "h", "i", "j", "k", "l", "m", "n", "o",
      "p", "q", "r", "s", "t", "u", "v", "w", "x", "y", "z", "é">>
UpperChars ==
    <<"A", "B", "C", "D", "E", "F", "G", "H", "I", "J", "K", "L", "M", "N", "O",
      "P", "Q", "R", "S", "T", "U", "V", "W", "X", "Y", "Z", "É">>
DigitChars == {"0", "1", "2", "3", "4", "5", "6", "7", "8", "9"}
Range(f) == {f[i] : i \in DOMAIN f}

is_ascii_digit(c) == c \in DigitChars
is_alphabetic(c) == c \in Range(LowerChars) \cup Range(UpperChars)
is_alphanumeric(c) == is_alphabetic(c) \/ is_ascii_digit(c)
is_whitespace(c) == c \in {" ", "\n", "\r", "\t"}
len_utf8(c) == IF c \in {"é", "É"} THEN 2 ELSE 1

index_of(f, c) == CHOOSE i \in DOMAIN f : f[i] = c
char_to_uppercase(c) ==
    IF c \in Range(LowerChars) THEN UpperChars[index_of(LowerChars, c)] ELSE c
char_to_lowercase(c) ==
    IF c \in Range(UpperChars) THEN LowerChars[index_of(UpperChars, c)] ELSE c

(***************************************************************************)
(* The methods of str that apply_method uses.                              *)
(***************************************************************************)
\* str::len: the length in bytes
RECURSIVE byte_len(_)
byte_len(s) == IF s = << >> THEN 0 ELSE len_utf8(Head(s)) + byte_len(Tail(s))

to_uppercase(s) == [i \in 1..Len(s) |-> char_to_uppercase(s[i])]
to_lowercase(s) == [i \in 1..Len(s) |-> char_to_lowercase(s[i])]
reverse(s) == [i \in 1..Len(s) |-> s[Len(s) + 1 - i]]

starts_with(s, pat) == Len(pat) <= Len(s) /\ SubSeq(s, 1, Len(pat)) = pat
ends_with(s, pat) ==
    Len(pat) <= Len(s) /\ SubSeq(s, Len(s) - Len(pat) + 1, Len(s)) = pat

\* the 1-based character index of the first occurrence of pat at or after
\* from, 0 when there is none
find_from(s, pat, from) ==
    LET hits == {i \in from..(Len(s) - Len(pat) + 1) : SubSeq(s, i, i + Len(pat) - 1) = pat}
    IN IF hits = {} THEN 0 ELSE CHOOSE i \in hits : \A j \in hits : i <= j

contains(s, pat) == find_from(s, pat, 1) # 0

\* str::find: the byte offset of the first occurrence
str_find(s, pat) ==
    LET i == find_from(s, pat, 1)
    IN IF i = 0 THEN None ELSE Some(byte_len(SubSeq(s, 1, i - 1)))

\* str::matches(pat).count(): the occurrences that do not overlap, pat
\* not empty
RECURSIVE matches_count(_, _)
matches_count(s, pat) ==
    LET i == find_from(s, pat, 1)
    IN IF i = 0 THEN 0 ELSE 1 + matches_count(suffix(s, i + Len(pat)), pat)

\* str::replace: every occurrence that does not overlap, left to right; an
\* empty pattern matches before every character and at the end
RECURSIVE replace_nonempty(_, _, _)
replace_nonempty(s, from, to) ==
    LET i == find_from(s, from, 1)
    IN IF i = 0 THEN s
       ELSE SubSeq(s, 1, i - 1) \o to \o replace_nonempty(suffix(s, i + Len(from)), from, to)

RECURSIVE replace_empty(_, _)
replace_empty(s, to) ==
    IF s = << >> THEN to ELSE to \o <<Head(s)>> \o replace_empty(Tail(s), to)

replace(s, from, to) ==
    IF from = << >> THEN replace_empty(s, to) ELSE replace_nonempty(s, from, to)

RECURSIVE trim_start(_)
trim_start(s) ==
    IF s # << >> /\ is_whitespace(Head(s)) THEN trim_start(Tail(s)) ELSE s
trim_end(s) == reverse(trim_start(reverse(s)))
trim(s) == trim_end(trim_start(s))

RECURSIVE repeat(_, _)
repeat(s, n) == IF n <= 0 THEN << >> ELSE s \o repeat(s, n - 1)

\* iter::repeat(base).take(times).join(add), times > 0
RECURSIVE repeat_join(_, _, _)
repeat_join(s, times, add) ==
    IF times = 1 THEN s ELSE s \o add \o repeat_join(s, times - 1, add)

(***************************************************************************)
(* Expressions (src/src/ast.rs).                                           *)
(***************************************************************************)
StringE(s) == [kind |-> "String", s |-> s]
VariableE(v) == [kind |-> "Variable", name |-> v]
NumberE(n) == [kind |-> "Number", n |-> n]
TupleE(es) == [kind |-> "Tuple", items |-> es]
MethodCallE(object, method, arg) ==
    [kind |-> "MethodCall", object |-> object, method |-> method, arg |-> arg]

\* i64::to_string
Digit(d) == <<"0", "1", "2", "3", "4", "5", "6", "7", "8", "9">>[d + 1]
RECURSIVE nat_to_string(_)
nat_to_string(n) ==
    IF n < 10 THEN <<Digit(n)>> ELSE Append(nat_to_string(n \div 10), Digit(n % 10))
to_string(n) == IF n < 0 THEN <<"-">> \o nat_to_string(-n) ELSE nat_to_string(n)

\* The variable store: a function from the bound names to their texts.
EmptyStore == [v \in {} |-> << >>]
store_get(vs, v) == IF v \in DOMAIN vs THEN Some(vs[v]) ELSE None
\* HashMap::insert on a map emptied first
store_insert_cleared(vs, name, value) == [v \in {name} |-> value]

\* HashMap::insert
store_insert(vs, name, value) ==
    [v \in (DOMAIN vs) \cup {name} |-> IF v = name THEN value ELSE vs[v]]

message_name == <<"m", "e", "s", "s", "a", "g", "e">>
client_name == <<"c", "l", "i", "e", "n", "t">>

(***************************************************************************)
(* Numbers read from texts.                                                *)
(***************************************************************************)
all_digits(s) == s # << >> /\ \A i \in 1..Len(s) : is_ascii_digit(s[i])

digit_value(c) == CHOOSE d \in 0..9 : Digit(d) = c
RECURSIVE digits_value(_)
digits_value(s) ==
    IF s = << >> THEN 0
    ELSE 10 * digits_value(SubSeq(s, 1, Len(s) - 1)) + digit_value(s[Len(s)])

\* str::parse::<usize>: decimal digits after an optional '+'.  The texts of
\* the model are short, so that the value always fits.
parse_usize(s) ==
    LET body == IF s # << >> /\ Head(s) = "+" THEN Tail(s) ELSE s
    IN IF all_digits(body) THEN Some(digits_value(body)) ELSE None

first_index(s, chars) ==
    LET hits == {i \in 1..Len(s) : s[i] \in chars}
    IN IF hits = {} THEN 0 ELSE CHOOSE i \in hits : \A j \in hits : i <= j

no_sign(s) == IF s # << >> /\ Head(s) \in {"+", "-"} THEN Tail(s) ELSE s

\* digits, digits '.', digits '.' digits or '.' digits
is_decimal(s) ==
    LET dot == first_index(s, {"."})
        int_part == IF dot = 0 THEN s ELSE SubSeq(s, 1, dot - 1)
        frac_part == IF dot = 0 THEN << >> ELSE suffix(s, dot + 1)
    IN /\ int_part = << >> \/ all_digits(int_part)
       /\ frac_part = << >> \/ all_digits(frac_part)
       /\ int_part # << >> \/ frac_part # << >>

\* str::parse::<f64>().is_ok(): after an optional sign, a decimal number
\* with an optional exponent, or inf, infinity or nan in any case
parse_f64_is_ok(s) ==
    LET body == no_sign(s)
        e == first_index(body, {"e", "E"})
    IN \/ to_lowercase(body) \in { <<"n", "a", "n">>, <<"i", "n", "f">>,
                                   <<"i", "n", "f", "i", "n", "i", "t", "y">> }
       \/ e = 0 /\ is_decimal(body)
       \/ /\ e > 0
          /\ is_decimal(SubSeq(body, 1, e - 1))
          /\ all_digits(no_sign(suffix(body, e + 1)))

bool_to_string(b) ==
    IF b THEN <<"t", "r", "u", "e">> ELSE <<"f", "a", "l", "s", "e">>

(***************************************************************************)
(* The names of the built-in methods (runtime.rs:29-178).                  *)
(***************************************************************************)
Method ==
    [ reverse |-> <<"r", "e", "v", "e", "r", "s", "e">>,
      upper |-> <<"u", "p", "p", "e", "r">>,
      lower |-> <<"l", "o", "w", "e", "r">>,
      length |-> <<"l", "e", "n", "g", "t", "h">>,
      len |-> <<"l", "e", "n">>,
      capitalize |-> <<"c", "a", "p", "i", "t", "a", "l", "i", "z", "e">>,
      cap |-> <<"c", "a", "p">>,
      contains |-> <<"c", "o", "n", "t", "a", "i", "n", "s">>,
      starts_with |-> <<"s", "t", "a", "r", "t", "s", "_", "w", "i", "t", "h">>,
      startsWith |-> <<"s", "t", "a", "r", "t", "s", "W", "i", "t", "h">>,
      ends_with |-> <<"e", "n", "d", "s", "_", "w", "i", "t", "h">>,
      endsWith |-> <<"e", "n", "d", "s", "W", "i", "t", "h">>,
      find |-> <<"f", "i", "n", "d">>,
      trim |-> <<"t", "r", "i", "m">>,
      rtrim |-> <<"r", "t", "r", "i", "m">>,
      ltrim |-> <<"l", "t", "r", "i", "m">>,
      repeat |-> <<"r", "e", "p", "e", "a", "t">>,
      repeat_sep |-> <<"r", "e", "p", "e", "a", "t", "_", "s", "e", "p">>,
      repeatSep |-> <<"r", "e", "p", "e", "a", "t", "S", "e", "p">>,
      replace |-> <<"r", "e", "p", "l", "a", "c", "e">>,
      remove |-> <<"r", "e", "m", "o", "v", "e">>,
      count |-> <<"c", "o", "u", "n", "t">>,
      is_empty |-> <<"i", "s", "_", "e", "m", "p", "t", "y">>,
      isEmpty |-> <<"i", "s", "E", "m", "p", "t", "y">>,
      typeof |-> <<"t", "y", "p", "e", "o", "f">>,
      type_of |-> <<"t", "y", "p", "e", "_", "o", "f">> ]

\* the value that stands for a panic of the evaluating thread; it is not a
\* text (a text holds one-character strings)
Panic == <<"panic">>

(***************************************************************************)
(* The template engine (src/src/template.rs).                              *)
(*                                                                         *)
(* The texts given to a ${ ... } span here are over TemplateAlphabet,       *)
(* which has no whitespace, digit, '.', parenthesis or arithmetic          *)
(* operator: parse_complex_expr reaches the plain-variable case of         *)
(* parse_primary_expr.                                                     *)
(***************************************************************************)
TemplateAlphabet == {"a", "$", "{", "}"}

\* the prefix of s made of characters c with c.is_alphanumeric() || c == '_'
RECURSIVE read_name(_)
read_name(s) ==
    IF s # << >> /\ (is_alphanumeric(Head(s)) \/ Head(s) = "_")
    THEN <<Head(s)>> \o read_name(Tail(s))
    ELSE << >>

\* the characters of a ${ ... } span up to the brace that closes it
RECURSIVE collect_braced(_, _, _)
collect_braced(rest, depth, expr_str) ==
    IF rest = << >> THEN expr_str
    ELSE IF Head(rest) = "{"
         THEN collect_braced(Tail(rest), depth + 1, Append(expr_str, "{"))
    ELSE IF Head(rest) = "}"
         THEN IF depth - 1 = 0 THEN expr_str
              ELSE collect_braced(Tail(rest), depth - 1, Append(expr_str, "}"))
    ELSE collect_braced(Tail(rest), depth, Append(expr_str, Head(rest)))

parse_primary_expr(s) == VariableE(s)
parse_complex_expr(s) == parse_primary_expr(s)

\* the prefix of s made of characters c with c.is_alphabetic() || c == '_'
RECURSIVE read_method_name(_)
read_method_name(s) ==
    IF s # << >> /\ (is_alphabetic(Head(s)) \/ Head(s) = "_")
    THEN <<Head(s)>> \o read_method_name(Tail(s))
    ELSE << >>

\* the prefix of s made of ASCII digits
RECURSIVE read_digits(_)
read_digits(s) ==
    IF s # << >> /\ is_ascii_digit(Head(s))
    THEN <<Head(s)>> \o read_digits(Tail(s))
    ELSE << >>

skip_char(s, c) == IF s # << >> /\ Head(s) = c THEN Tail(s) ELSE s

\* template.rs:68-91: what follows a method name.  After '(' only a run of
\* digits is collected, as a Number, and a ')' that follows it is skipped;
\* the digit runs of the model are short, so parse().unwrap() returns.
template_arg(s) ==
    IF s # << >> /\ Head(s) = "(" /\ read_digits(Tail(s)) # << >>
    THEN Some(NumberE(digits_value(read_digits(Tail(s)))))
    ELSE None

after_template_arg(s) ==
    IF s # << >> /\ Head(s) = "("
    THEN skip_char(suffix(Tail(s), Len(read_digits(Tail(s))) + 1), ")")
    ELSE s

\* template.rs:52-102: the .method(...) chain after the variable name
RECURSIVE template_chain(_, _)
template_chain(expr, rest) ==
    IF rest = << >> \/ Head(rest) # "." THEN expr
    ELSE template_chain(
           MethodCallE(expr, read_method_name(Tail(rest)),
                       template_arg(suffix(Tail(rest),
                                           Len(read_method_name(Tail(rest))) + 1))),
           after_template_arg(suffix(Tail(rest),
                                     Len(read_method_name(Tail(rest))) + 1)))

\* template.rs:5-105
parse_template_expr(s) ==
    IF s = << >> \/ Head(s) # "$" THEN StringE(s)
    ELSE IF Len(s) >= 2 /\ s[2] = "{"
         THEN parse_complex_expr(collect_braced(suffix(s, 3), 1, << >>))
    ELSE template_chain(VariableE(read_name(suffix(s, 2))),
                        suffix(s, Len(read_name(suffix(s, 2))) + 2))

\* template.rs:248, the text left after the last marker is appended
push_remaining_dropped(result, remaining) == result
push_remaining(result, remaining) == result \o remaining

RECURSIVE eval_template_loop(_, _, _, _, _)
RECURSIVE eval_expression(_, _, _, _)
RECURSIVE apply_method(_, _, _, _, _, _)

\* the while loop of eval_template and the push_str that follows it
eval_template_loop(result, remaining, message, client, vs) ==
    LET start == find2(remaining, "{", "{") IN
    IF start = 0 THEN push_remaining(result, remaining)
    ELSE
      LET before == SubSeq(remaining, 1, start - 1)
          after == suffix(remaining, start)
          end == find2(after, "}", "}")
      IN IF end # 0
         THEN LET expr_str == SubSeq(after, 3, end - 1)
                  expr == parse_template_expr(expr_str)
                  evaluated == eval_expression(expr, message, client, vs)
              IN IF evaluated = Panic THEN Panic
                 ELSE eval_template_loop(result \o before \o evaluated,
                                         suffix(after, end + 2), message, client, vs)
         ELSE \* push_str(after); break; then push_str(remaining), with
              \* remaining still holding before and after
              push_remaining(result \o before \o after, remaining)

\* template.rs:223-250 with the result scanned for markers once more
eval_template_rescanned(s, message, client, vs) ==
    IF eval_template_loop(<< >>, s, message, client, vs) = Panic THEN Panic
    ELSE eval_template_loop(<< >>, eval_template_loop(<< >>, s, message, client, vs),
                            message, client, vs)

\* template.rs:223-250
eval_template(s, message, client, vs) ==
    eval_template_loop(<< >>, s, message, client, vs)

\* runtime.rs:195-199 with the store consulted first
eval_variable_store_first(v, message, client, vs) ==
    IF v \in DOMAIN vs THEN vs[v]
    ELSE IF v = message_name THEN unwrap_or(message, << >>)
    ELSE IF v = client_name THEN unwrap_or(client, << >>)
    ELSE <<"$">> \o v

\* runtime.rs:195-199
eval_variable(v, message, client, vs) ==
    IF v = message_name THEN unwrap_or(message, << >>)
    ELSE IF v = client_name THEN unwrap_or(client, << >>)
    ELSE unwrap_or(store_get(vs, v), <<"$">> \o v)

\* the arms `Some(String(arg)) if arg != ""` of apply_method
is_nonempty_string(arg) ==
    arg # None /\ arg[1].kind = "String" /\ arg[1].s # << >>

\* the arms `Some(Tuple(args_vec)) if args_vec.len() == 2`
is_pair(arg) ==
    arg # None /\ arg[1].kind = "Tuple" /\ Len(arg[1].items) = 2

\* the arms Some(_) and None of a method whose argument does not fit, with
\* the empty text returned
wrong_argument_empty(base) == << >>

\* the arms Some(_) and None of a method whose argument does not fit
\* (runtime.rs:42-49 and the like): a warning, and the base text
wrong_argument(base) == base

\* runtime.rs:179-182
unknown_method(base) == base

\* runtime.rs:34-37: &base[1..] panics when byte 1 is inside the first
\* character
capitalize(base) ==
    IF base = << >> THEN << >>
    ELSE IF len_utf8(Head(base)) > 1 THEN Panic
    ELSE <<char_to_uppercase(Head(base))>> \o Tail(base)

\* runtime.rs:166-178
type_of(base) ==
    IF parse_f64_is_ok(base) THEN <<"n", "u", "m", "b", "e", "r">>
    ELSE IF starts_with(base, <<"(">>) /\ ends_with(base, <<")">>)
         THEN <<"t", "u", "p", "l", "e">>
    ELSE IF base = bool_to_string(TRUE) \/ base = bool_to_string(FALSE)
         THEN <<"b", "o", "o", "l", "e", "a", "n">>
    ELSE IF base = << >> THEN <<"e", "m", "p", "t", "y">>
    ELSE <<"s", "t", "r", "i", "n", "g">>

\* runtime.rs:21-184
apply_method(base, method, arg, message, client, vs) ==
    CASE method = Method.reverse -> reverse(base)
      [] method = Method.upper -> to_uppercase(base)
      [] method = Method.lower -> to_lowercase(base)
      [] method \in {Method.length, Method.len} -> to_string(byte_len(base))
      [] method \in {Method.capitalize, Method.cap} -> capitalize(base)
      [] method = Method.contains ->
            IF is_nonempty_string(arg) THEN bool_to_string(contains(base, arg[1].s))
            ELSE wrong_argument(base)
      [] method \in {Method.starts_with, Method.startsWith} ->
            IF is_nonempty_string(arg) THEN bool_to_string(starts_with(base, arg[1].s))
            ELSE wrong_argument(base)
      [] method \in {Method.ends_with, Method.endsWith} ->
            IF is_nonempty_string(arg) THEN bool_to_string(ends_with(base, arg[1].s))
            ELSE wrong_argument(base)
      [] method = Method.find ->
            IF is_nonempty_string(arg)
            THEN LET i == str_find(base, arg[1].s)
                 IN IF i = None THEN <<"-", "1">> ELSE to_string(i[1])
            ELSE wrong_argument(base)
      [] method = Method.trim -> trim(base)
      [] method = Method.rtrim -> trim_end(base)
      [] method = Method.ltrim -> trim_start(base)
      [] method = Method.repeat ->
            IF arg # None /\ arg[1].kind = "Number"
            THEN repeat(base, arg[1].n)
            ELSE repeat(base, 2)
      [] method \in {Method.repeat_sep, Method.repeatSep} ->
            IF is_pair(arg)
            THEN LET times_str == eval_expression(arg[1].items[1], message, client, vs)
                     add == eval_expression(arg[1].items[2], message, client, vs)
                 IN IF times_str = Panic \/ add = Panic THEN Panic
                    ELSE LET times == unwrap_or(parse_usize(times_str), 0)
                         IN IF times = 0 THEN base ELSE repeat_join(base, times, add)
            ELSE wrong_argument(base)
      [] method = Method.replace ->
            IF is_pair(arg)
            THEN LET from == eval_expression(arg[1].items[1], message, client, vs)
                     to == eval_expression(arg[1].items[2], message, client, vs)
                 IN IF from = Panic \/ to = Panic THEN Panic
                    ELSE replace(base, from, to)
            ELSE wrong_argument(base)
      [] method = Method.remove ->
            IF is_nonempty_string(arg) THEN replace(base, arg[1].s, << >>)
            ELSE wrong_argument(base)
      [] method = Method.count ->
            IF is_nonempty_string(arg) THEN to_string(matches_count(base, arg[1].s))
            ELSE wrong_argument(base)
      [] method \in {Method.is_empty, Method.isEmpty} -> bool_to_string(base = << >>)
      [] method \in {Method.typeof, Method.type_of} -> type_of(base)
      [] OTHER -> unknown_method(base)

(***************************************************************************)
(* The comparisons of BinaryOp (runtime.rs:205-239).                       *)
(***************************************************************************)
\* The printable ASCII characters in the order of their codes: 32 to 95,
\* then 97 to 126.
AsciiBelowBacktick ==
    <<" ", "!", "\"", "#", "$", "%", "&", "'", "(", ")", "*", "+", ",", "-", ".", "/",
      "0", "1", "2", "3", "4", "5", "6", "7", "8", "9", ":", ";", "<", "=", ">", "?",
      "@", "A", "B", "C", "D", "E", "F", "G", "H", "I", "J", "K", "L", "M", "N", "O",
      "P", "Q", "R", "S", "T", "U", "V", "W", "X", "Y", "Z", "[", "\\", "]", "^", "_">>
AsciiAboveBacktick ==
    <<"a", "b", "c", "d", "e", "f", "g", "h", "i", "j", "k", "l", "m", "n", "o",
      "p", "q", "r", "s", "t", "u", "v", "w", "x", "y", "z", "{", "|", "}", "~">>

\* The code point of a character; the order of UTF-8 encoded texts is the
\* order of their code points.
code_point(c) ==
    CASE c \in Range(AsciiBelowBacktick) -> 31 + index_of(AsciiBelowBacktick, c)
      [] c \in Range(AsciiAboveBacktick) -> 96 + index_of(AsciiAboveBacktick, c)
      [] c = "\t" -> 9
      [] c = "\n" -> 10
      [] c = "\r" -> 13
      [] c = "É" -> 201
      [] c = "é" -> 233

\* Ord for str: the order of the first character that differs, a proper
\* prefix being less.
RECURSIVE str_cmp(_, _)
str_cmp(a, b) ==
    IF a = << >> THEN (IF b = << >> THEN "Equal" ELSE "Less")
    ELSE IF b = << >> THEN "Greater"
    ELSE IF Head(a) = Head(b) THEN str_cmp(Tail(a), Tail(b))
    ELSE IF code_point(Head(a)) < code_point(Head(b)) THEN "Less"
    ELSE "Greater"

\* The parts of a decimal that parse_f64_is_ok accepts: mantissa,
\* exponent, digits before and after the point.
exponent_at(body) == first_index(body, {"e", "E"})

mantissa_of(body) ==
    IF exponent_at(body) = 0 THEN body ELSE SubSeq(body, 1, exponent_at(body) - 1)

exponent_of(body) ==
    IF exponent_at(body) = 0 THEN << >> ELSE suffix(body, exponent_at(body) + 1)

integer_digits(mantissa) ==
    IF first_index(mantissa, {"."}) = 0 THEN mantissa
    ELSE SubSeq(mantissa, 1, first_index(mantissa, {"."}) - 1)

fraction_digits(mantissa) ==
    IF first_index(mantissa, {"."}) = 0 THEN << >>
    ELSE suffix(mantissa, first_index(mantissa, {"."}) + 1)

exponent_value(body) ==
    IF starts_with(exponent_of(body), <<"-">>)
    THEN 0 - digits_value(no_sign(exponent_of(body)))
    ELSE digits_value(no_sign(exponent_of(body)))

\* The value m * 10^e of a decimal.  The decimals of the model have few
\* digits and small exponents: each is a different f64 unless the values
\* are equal, and the order of the f64s is the order of the values.
decimal_value(negative, body) ==
    [kind |-> "finite",
     m |-> (IF negative THEN -1 ELSE 1)
           * digits_value(integer_digits(mantissa_of(body))
                          \o fraction_digits(mantissa_of(body))),
     e |-> exponent_value(body) - Len(fraction_digits(mantissa_of(body)))]

\* left_val.parse::<f64>() (runtime.rs:210-211); Err is None
parse_f64(s) ==
    IF ~parse_f64_is_ok(s) THEN None
    ELSE IF to_lowercase(no_sign(s)) = <<"n", "a", "n">> THEN Some([kind |-> "nan"])
    ELSE IF to_lowercase(no_sign(s)) \in {<<"i", "n", "f">>,
                                          <<"i", "n", "f", "i", "n", "i", "t", "y">>}
    THEN Some([kind |-> "infinite", negative |-> starts_with(s, <<"-">>)])
    ELSE Some(decimal_value(starts_with(s, <<"-">>), no_sign(s)))

RECURSIVE pow10(_)
pow10(n) == IF n = 0 THEN 1 ELSE 10 * pow10(n - 1)

int_cmp(x, y) == IF x < y THEN "Less" ELSE IF x = y THEN "Equal" ELSE "Greater"

smaller(x, y) == IF x < y THEN x ELSE y

\* PartialOrd for f64: a NaN is unordered with everything
f64_cmp(l, r) ==
    IF l.kind = "nan" \/ r.kind = "nan" THEN "Unordered"
    ELSE IF l.kind = "infinite" /\ r.kind = "infinite"
    THEN int_cmp(IF l.negative THEN 0 ELSE 1, IF r.negative THEN 0 ELSE 1)
    ELSE IF l.kind = "infinite" THEN (IF l.negative THEN "Less" ELSE "Greater")
    ELSE IF r.kind = "infinite" THEN (IF r.negative THEN "Greater" ELSE "Less")
    ELSE int_cmp(l.m * pow10(l.e - smaller(l.e, r.e)),
                 r.m * pow10(r.e - smaller(l.e, r.e)))

\* runtime.rs:216-221, 227-232: the operators on an ordering
holds(op, ordering) ==
    CASE op = "Equal" -> ordering = "Equal"
      [] op = "NotEqual" -> ordering # "Equal"
      [] op = "GreaterThan" -> ordering = "Greater"
      [] op = "LessThan" -> ordering = "Less"
      [] op = "GreaterEqual" -> ordering \in {"Greater", "Equal"}
      [] op = "LessEqual" -> ordering \in {"Less", "Equal"}

\* runtime.rs:213-234 with the numeric arm left out
compare_as_text(left_val, op, right_val) == holds(op, str_cmp(left_val, right_val))

\* runtime.rs:213-234
compare(left_val, op, right_val) ==
    IF parse_f64(left_val) # None /\ parse_f64(right_val) # None
    THEN holds(op, f64_cmp(parse_f64(left_val)[1], parse_f64(right_val)[1]))
    ELSE holds(op, str_cmp(left_val, right_val))

\* runtime.rs:205-239
eval_binary_op(left_val, op, right_val) ==
    IF left_val = Panic \/ right_val = Panic THEN Panic
    ELSE bool_to_string(compare(left_val, op, right_val))

\* runtime.rs:187-245
eval_expression(expr, message, client, vs) ==
    CASE expr.kind = "String" -> eval_template(expr.s, message, client, vs)
      [] expr.kind = "Variable" -> eval_variable(expr.name, message, client, vs)
      [] expr.kind = "Number" -> to_string(expr.n)
      [] expr.kind = "MethodCall" ->
            LET base == eval_expression(expr.object, message, client, vs)
            IN IF base = Panic THEN Panic
               ELSE apply_method(base, expr.method, expr.arg, message, client, vs)
      [] expr.kind = "BinaryOp" ->
            eval_binary_op(eval_expression(expr.left, message, client, vs), expr.op,
                           eval_expression(expr.right, message, client, vs))
      [] expr.kind = "Tuple" -> << >>

(***************************************************************************)
(* The harness of eval_template: one call on a bounded input.              *)
(***************************************************************************)
TemplateStores ==
    { EmptyStore,
      [v \in {<<"a">>} |-> <<"$">>],
      [v \in {<<"a">>, << >>} |-> IF v = <<"a">> THEN <<"{", "{">> ELSE <<"a">>] }

TemplateMessages == {None, Some(<<"a">>)}

RuntimeIdle ==
    /\ main_pc = "idle"
    /\ source = << >>
    /\ servers = << >>
    /\ conns = << >>
    /\ faults = 0
    /\ reads = 0

CallIdle ==
    /\ h_pc = "idle"
    /\ h_in = << >>
    /\ h_out = << >>

TemplateIdle ==
    /\ t_pc = "idle"
    /\ t_s = << >>
    /\ t_message = None
    /\ t_client = None
    /\ t_vars = EmptyStore
    /\ t_result = << >>

InitTemplate ==
    /\ RuntimeIdle
    /\ CallIdle
    /\ t_pc = "call"
    /\ t_s \in Texts(TemplateAlphabet, MaxLen)
    /\ t_message \in TemplateMessages
    /\ t_client = Some(<<"1">>)
    /\ t_vars \in TemplateStores
    /\ t_result = << >>

CallEvalTemplate ==
    /\ t_pc = "call"
    /\ t_result' = eval_template(t_s, t_message, t_client, t_vars)
    /\ t_pc' = "done"
    /\ UNCHANGED <<t_s, t_message, t_client, t_vars>>
    /\ UNCHANGED runtime_vars
    /\ UNCHANGED call_vars

NextTemplate == CallEvalTemplate

SpecTemplate == InitTemplate /\ [][NextTemplate]_vars

(***************************************************************************)
(* The harness of eval_expression: one call on an expression and a         *)
(* context drawn from bounded sets.                                        *)
(***************************************************************************)
m_bogus == <<"b", "o", "g", "u", "s">>

EvalMethods ==
    { Method.reverse, Method.upper, Method.lower, Method.length, Method.len, Method.capitalize, Method.cap,
      Method.contains, Method.starts_with, Method.startsWith, Method.ends_with, Method.endsWith,
      Method.find, Method.trim, Method.rtrim, Method.ltrim, Method.repeat, Method.repeat_sep, Method.repeatSep,
      Method.replace, Method.remove, Method.count, Method.is_empty, Method.isEmpty, Method.typeof,
      Method.type_of, m_bogus }

EvalTexts ==
    { << >>, <<"a">>, <<"a", "b">>, <<"a", "b", "a">>, <<"é">>, <<"a", "é">>,
      <<" ", "a", " ">>, <<"1">>, <<"(", "a", ")">>, <<"t", "r", "u", "e">>,
      <<"N", "a", "N">> }

marker_of(name) == <<"{", "{", "$">> \o name \o <<"}", "}">>

EvalNames == {message_name, client_name, <<"n">>, <<"q">>}

EvalObjects ==
    {StringE(t) : t \in EvalTexts} \cup {VariableE(v) : v \in {message_name, <<"n">>}}

EvalArgs ==
    { None,
      Some(StringE(<<"a">>)),
      Some(StringE(<< >>)),
      Some(VariableE(<<"n">>)),
      Some(TupleE(<<StringE(<<"a">>), StringE(<<"x">>)>>)),
      Some(TupleE(<<StringE(<< >>), StringE(<<"-">>)>>)),
      Some(TupleE(<<NumberE(3), StringE(<<"-">>)>>)),
      Some(TupleE(<<StringE(<<"a">>), StringE(<<"b">>), StringE(<<"c">>)>>)) }
    \cup {Some(NumberE(k)) : k \in 0..MaxRepeat}

EvalExprs ==
    {VariableE(v) : v \in EvalNames}
    \cup {StringE(marker_of(v)) : v \in EvalNames}
    \cup {MethodCallE(o, m, a) : o \in EvalObjects, m \in EvalMethods, a \in EvalArgs}
    \cup {MethodCallE(MethodCallE(o, Method.reverse, None), m, None) :
            o \in EvalObjects, m \in EvalMethods}

EvalMessages == {None, Some(<<"a", "b">>), Some(<<"é", "a">>)}
EvalClients == {None, Some(<<"1">>)}
EvalStores ==
    { EmptyStore,
      [v \in {<<"n">>} |-> <<"b">>],
      [v \in {message_name, client_name, <<"n">>} |->
         IF v = <<"n">> THEN << >> ELSE <<"x">>] }

InitEval ==
    /\ RuntimeIdle
    /\ TemplateIdle
    /\ h_pc = "call"
    /\ h_in \in [expr : EvalExprs, message : EvalMessages,
                 client : EvalClients, vars : EvalStores]
    /\ h_out = << >>

CallEvalExpression ==
    /\ h_pc = "call"
    /\ h_out' = eval_expression(h_in.expr, h_in.message, h_in.client, h_in.vars)
    /\ h_pc' = "done"
    /\ UNCHANGED h_in
    /\ UNCHANGED runtime_vars
    /\ UNCHANGED template_vars

NextEval == CallEvalExpression

SpecEval == InitEval /\ [][NextEval]_vars

(***************************************************************************)
(* Statements (src/src/ast.rs).  else_body is an Option<body>.             *)
(***************************************************************************)
ServerS(protocol, port, body) ==
    [kind |-> "Server", protocol |-> protocol, port |-> port, body |-> body]
OnS(event, body) == [kind |-> "On", event |-> event, body |-> body]
LogS(e) == [kind |-> "Log", expr |-> e]
SendS(e) == [kind |-> "Send", expr |-> e]
SetVarS(name, value) == [kind |-> "SetVar", name |-> name, value |-> value]
IfS(condition, then_body, else_ifs, else_body) ==
    [kind |-> "If", condition |-> condition, then_body |-> then_body,
     else_ifs |-> else_ifs, else_body |-> else_body]

(***************************************************************************)
(* The scripts given to main().  A script is known here by what lex and    *)
(* parse return for it; for a script that one of them rejects, ast holds   *)
(* the declarations that precede the error in the text.                    *)
(*                                                                         *)
(*   server tcp ":9" {                                                     *)
(*     on connect { send("hi") log("c") }                                  *)
(*     on message { set n = $message  send($message.upper()) }             *)
(*     on message { if n { log("A") } else if "a" { log("B") }             *)
(*                  else { log("C") } }                                    *)
(*     on disconnect { log("bye") }                                        *)
(*     on bogus { log("x") }                                               *)
(*   }                                                                     *)
(***************************************************************************)
EchoBody ==
    << OnS("connect", << SendS(StringE(<<"h", "i">>)), LogS(StringE(<<"c">>)) >>),
       OnS("message", << SetVarS(<<"n">>, VariableE(message_name)),
                         SendS(MethodCallE(VariableE(message_name), Method.upper,
                                           None)) >>),
       OnS("message", << IfS(VariableE(<<"n">>),
                             << LogS(StringE(<<"A">>)) >>,
                             << << StringE(<<"a">>), << LogS(StringE(<<"B">>)) >> >> >>,
                             Some(<< LogS(StringE(<<"C">>)) >>)) >>),
       OnS("disconnect", << LogS(StringE(<<"b", "y", "e">>)) >>),
       OnS("bogus", << LogS(StringE(<<"x">>)) >>) >>

EchoScript == << ServerS(<<"t", "c", "p">>, <<":", "9">>, EchoBody) >>

Sources ==
    { [lex |-> "Ok", parse |-> "Ok", ast |-> EchoScript],
      [lex |-> "Ok", parse |-> "Err", ast |-> EchoScript],
      [lex |-> "Err", parse |-> "Err", ast |-> EchoScript] }

\* what a socket read can deliver as valid UTF-8
ReadChunks == { <<"a", "\n">>, <<"\r", "\n">> }

(***************************************************************************)
(* main (src/src/main.rs) and interpret (src/src/interpreter.rs).          *)
(***************************************************************************)
Init ==
    /\ main_pc = "lex"
    /\ source \in Sources
    /\ servers = << >>
    /\ conns = << >>
    /\ faults = 0
    /\ reads = 0
    /\ TemplateIdle
    /\ CallIdle

\* main.rs:36-42
MainLex ==
    /\ main_pc = "lex"
    /\ main_pc' = IF source.lex = "Ok" THEN "parse" ELSE "exit"
    /\ UNCHANGED <<source, servers, conns, faults, reads>>
    /\ UNCHANGED harness_vars

\* main.rs:44-50, with the error branch falling through to interpret
MainParse_ignoring_error ==
    /\ main_pc = "parse"
    /\ main_pc' = "interpret"
    /\ UNCHANGED <<source, servers, conns, faults, reads>>
    /\ UNCHANGED harness_vars

\* main.rs:44-50
MainParse ==
    /\ main_pc = "parse"
    /\ main_pc' = IF source.parse = "Ok" THEN "interpret" ELSE "exit"
    /\ UNCHANGED <<source, servers, conns, faults, reads>>
    /\ UNCHANGED harness_vars

\* runtime.rs:334-338
bind_addr(port) ==
    IF port # << >> /\ Head(port) = ":"
    THEN <<"1", "2", "7", ".", "0", ".", "0", ".", "1">> \o port
    ELSE <<"1", "2", "7", ".", "0", ".", "0", ".", "1", ":">> \o port

\* interpreter.rs:4-23: one task per Server statement, then main awaits them
interpret ==
    /\ main_pc = "interpret"
    /\ servers' = [i \in 1..Len(source.ast) |->
                     [state |-> "Binding", addr |-> bind_addr(source.ast[i].port)]]
    /\ main_pc' = "await"
    /\ UNCHANGED <<source, conns, faults, reads>>
    /\ UNCHANGED harness_vars

(***************************************************************************)
(* run_server (src/src/runtime.rs:331-385): bind, then the accept loop.    *)
(***************************************************************************)
\* runtime.rs:341, bind succeeds
Bind(s) ==
    /\ s \in DOMAIN servers
    /\ servers[s].state = "Binding"
    /\ servers' = [servers EXCEPT ![s].state = "Listening"]
    /\ UNCHANGED <<main_pc, source, conns, faults, reads>>
    /\ UNCHANGED harness_vars

\* runtime.rs:341, bind fails and expect panics the server task
BindFail(s) ==
    /\ s \in DOMAIN servers
    /\ servers[s].state = "Binding"
    /\ faults < MaxFaults
    /\ faults' = faults + 1
    /\ servers' = [servers EXCEPT ![s].state = "Panicked"]
    /\ UNCHANGED <<main_pc, source, conns, reads>>
    /\ UNCHANGED harness_vars

\* the port of the peer address of the n-th accepted socket
peer_port(n) == n

\* runtime.rs:349-354: the state of a connection task when it is spawned
spawn_connection(s, n) ==
    [srv |-> s, client |-> to_string(peer_port(n)), vars |-> EmptyStore,
     pc |-> "Spawned", event |-> "connect", message |-> None, next |-> 1,
     cont |-> << >>, out |-> << >>, sends |-> << >>, stdout |-> << >>,
     hist |-> << >>, sets |-> << >>, ifs |-> << >>,
     nread |-> 0, last_read |-> "none", born |-> faults]

\* runtime.rs:344-349, accept succeeds and the connection task is spawned
Accept(s) ==
    /\ s \in DOMAIN servers
    /\ servers[s].state = "Listening"
    /\ Len(conns) < MaxConns
    /\ conns' = Append(conns, spawn_connection(s, Len(conns) + 1))
    /\ UNCHANGED <<main_pc, source, servers, faults, reads>>
    /\ UNCHANGED harness_vars

\* runtime.rs:344, accept fails and unwrap panics the server task
AcceptFail(s) ==
    /\ s \in DOMAIN servers
    /\ servers[s].state = "Listening"
    /\ faults < MaxFaults
    /\ faults' = faults + 1
    /\ servers' = [servers EXCEPT ![s].state = "Panicked"]
    /\ UNCHANGED <<main_pc, source, conns, reads>>
    /\ UNCHANGED harness_vars

(***************************************************************************)
(* The connection task (src/src/runtime.rs:349-383).                       *)
(*                                                                         *)
(* A task runs from one socket operation to the next, and an action is     *)
(* one such run: the task is suspended with pc "Spawned" (not yet polled), *)
(* "Writing" (in write_all/flush of the Send at the head of cont),         *)
(* "Receiving" (in socket.read), "Closed" (returned) or "Cancelled"        *)
(* (dropped with the runtime when main returned).  Between two             *)
(* suspensions pc is "Trigger" inside the loop of trigger_event (next is   *)
(* the index of the next event-table entry to look at) and "Exec" inside   *)
(* execute_statements (cont holds the statements still to run: those of    *)
(* the current body, then those that follow it in the enclosing bodies).   *)
(*                                                                         *)
(* Records kept for the properties: hist holds, in order, each handler's   *)
(* start, each statement it executed and its return ("end" for Ok, "err"   *)
(* for Err), with the handler's index h in the event table and the number  *)
(* k of the read that delivered the event; sets holds the SetVar           *)
(* assignments the connection executed; ifs holds, for each If executed,   *)
(* the statement, the context and the body that was run; sends holds the   *)
(* evaluated text of each Send whose write returned Ok (out holds the      *)
(* bytes of these writes); born is the number of faults that had happened  *)
(* when the connection was accepted.                                       *)
(***************************************************************************)
\* runtime.rs:12-18
extract_events(body) == SelectSeq(body, LAMBDA stmt : stmt.kind = "On")

events_of(conn) == extract_events(source.ast[conn.srv].body)

\* runtime.rs:319-321 with a return after the first handler
matching_first_only(events, event_name, from) ==
    {j \in from..Len(events) :
       /\ events[j].kind = "On" /\ events[j].event = event_name
       /\ \A i \in 1..(j - 1) : events[i].event # event_name}

\* runtime.rs:319-321: the entries at or after `from` that trigger_event runs
matching(events, event_name, from) ==
    {j \in from..Len(events) : events[j].kind = "On" /\ events[j].event = event_name}

entry(tag, conn, h) == [tag |-> tag, event |-> conn.event, h |-> h, k |-> conn.nread]

\* runtime.rs:322, execute_statements is called on the body of entry j
start_handler(conn, j) ==
    LET body == events_of(conn)[j].body
        started == Append(conn.hist, entry("start", conn, j))
    IN [conn EXCEPT !.next = j + 1,
                    !.cont = body,
                    !.pc = IF body = << >> THEN "Trigger" ELSE "Exec",
                    !.hist = IF body = << >>
                             THEN Append(started, entry("end", conn, j))
                             ELSE started]

\* runtime.rs:363 with the break lost: the read loop goes on after disconnect
after_event_no_break(event) == "Receiving"

\* runtime.rs:354-356, 375-376, 362-363: where the task goes when
\* trigger_event returns
after_event(event) == IF event = "disconnect" THEN "Closed" ELSE "Receiving"

\* the connection after one statement returned Ok, with rest still to run
after_statement(conn, rest) ==
    LET done == Append(conn.hist, entry("stmt", conn, conn.next - 1))
    IN [conn EXCEPT !.cont = rest,
                    !.pc = IF rest = << >> THEN "Trigger" ELSE "Exec",
                    !.hist = IF rest = << >>
                             THEN Append(done, entry("end", conn, conn.next - 1))
                             ELSE done]

eval_in(conn, expr) ==
    eval_expression(expr, conn.message, Some(conn.client), conn.vars)

\* runtime.rs:259-269
exec_set_var(conn) ==
    LET stmt == Head(conn.cont)
        evaluated == eval_in(conn, stmt.value)
    IN after_statement(
         [conn EXCEPT !.vars = store_insert(conn.vars, stmt.name, evaluated),
                      !.sets = Append(conn.sets, <<stmt.name, evaluated>>)],
         Tail(conn.cont))

\* runtime.rs:276-279 keeping only the first disjunct
is_true_only_literal(condition_result) ==
    condition_result = <<"t", "r", "u", "e">>

\* runtime.rs:276-279
is_true(condition_result) ==
    \/ condition_result = <<"t", "r", "u", "e">>
    \/ /\ condition_result # <<"f", "a", "l", "s", "e">>
       /\ condition_result # <<"0">>
       /\ condition_result # << >>

\* runtime.rs:270, 281-285: the pattern binds condition, then_body and
\* else_body; else_ifs is not read
selected_branch(conn, stmt) ==
    IF is_true(eval_in(conn, stmt.condition)) THEN Some(stmt.then_body)
    ELSE IF stmt.else_body # None THEN stmt.else_body
    ELSE None

\* runtime.rs:270-286
exec_if(conn) ==
    LET stmt == Head(conn.cont)
        branch == selected_branch(conn, stmt)
    IN after_statement(
         [conn EXCEPT !.ifs = Append(conn.ifs, [stmt |-> stmt, message |-> conn.message,
                                               vars |-> conn.vars, branch |-> branch])],
         unwrap_or(branch, << >>) \o Tail(conn.cont))

\* runtime.rs:287-292
exec_log(conn) ==
    LET output == eval_in(conn, Head(conn.cont).expr)
    IN after_statement([conn EXCEPT !.stdout = Append(conn.stdout, output)],
                       Tail(conn.cont))

\* runtime.rs:293-298: the text is evaluated and the task awaits write_all
exec_send(conn) == [conn EXCEPT !.pc = "Writing"]

\* runtime.rs:257-304 and 319-327: the task runs until its next socket
\* operation
RECURSIVE run_to_await(_)
run_to_await(conn) ==
    IF conn.pc = "Trigger"
    THEN LET todo == matching(events_of(conn), conn.event, conn.next)
         IN IF todo = {}
            THEN [conn EXCEPT !.pc = after_event(conn.event)]
            ELSE run_to_await(start_handler(conn, CHOOSE j \in todo : \A i \in todo : j <= i))
    ELSE IF conn.pc = "Exec"
    THEN LET kind == Head(conn.cont).kind
         IN CASE kind = "SetVar" -> run_to_await(exec_set_var(conn))
              [] kind = "If" -> run_to_await(exec_if(conn))
              [] kind = "Log" -> run_to_await(exec_log(conn))
              [] kind = "Send" -> exec_send(conn)
              [] OTHER -> run_to_await(after_statement(conn, Tail(conn.cont)))
    ELSE conn

\* runtime.rs:351 with the store created once, outside the accept loop, and
\* shared by the connection tasks
commit_shared_store(c, conn) ==
    [i \in DOMAIN conns |->
       IF i = c THEN conn ELSE [conns[i] EXCEPT !.vars = conn.vars]]

\* runtime.rs:349-351: socket, client_str and vars belong to one task
commit(c, conn) == [conns EXCEPT ![c] = conn]

\* runtime.rs:349-354, the spawned task is polled: trigger_event("connect")
ConnectionStart(c) ==
    /\ c \in DOMAIN conns
    /\ conns[c].pc = "Spawned"
    /\ conns' = commit(c, run_to_await(
           [conns[c] EXCEPT !.pc = "Trigger", !.event = "connect",
                            !.message = None, !.next = 1]))
    /\ UNCHANGED <<main_pc, source, servers, faults, reads>>
    /\ UNCHANGED harness_vars

writing(c) ==
    /\ c \in DOMAIN conns
    /\ conns[c].pc = "Writing"

\* runtime.rs:297 with the newline left out
msg_without_newline(output) == output

\* runtime.rs:297
msg_with_newline(output) == output \o <<"\n">>

\* runtime.rs:295-301, write_all and flush return Ok
SendOk(c) ==
    /\ writing(c)
    /\ LET conn == conns[c]
           output == eval_in(conn, Head(conn.cont).expr)
       IN conns' = commit(c, run_to_await(
              after_statement([conn EXCEPT !.out = conn.out \o msg_with_newline(output),
                                           !.sends = Append(conn.sends, output)],
                              Tail(conn.cont))))
    /\ UNCHANGED <<main_pc, source, servers, faults, reads>>
    /\ UNCHANGED harness_vars

\* runtime.rs:298-299, 282-284, 322-324: `?` returns the error out of
\* execute_statements and of every enclosing call; trigger_event logs it and
\* goes on with its loop
send_failed(conn) ==
    [conn EXCEPT !.cont = << >>,
                 !.pc = "Trigger",
                 !.hist = Append(conn.hist, entry("err", conn, conn.next - 1))]

\* runtime.rs:298, write_all returns Err (flush of a TcpStream does nothing
\* and returns Ok); what the failed write put on the wire is not kept in out
SendFail(c) ==
    /\ writing(c)
    /\ faults < MaxFaults
    /\ faults' = faults + 1
    /\ conns' = commit(c, run_to_await(send_failed(conns[c])))
    /\ UNCHANGED <<main_pc, source, servers, reads>>
    /\ UNCHANGED harness_vars

\* runtime.rs:373
RECURSIVE trim_end_matches_crlf(_)
trim_end_matches_crlf(msg) ==
    IF msg # << >> /\ msg[Len(msg)] \in {"\r", "\n"}
    THEN trim_end_matches_crlf(SubSeq(msg, 1, Len(msg) - 1))
    ELSE msg

receiving(c) ==
    /\ c \in DOMAIN conns
    /\ conns[c].pc = "Receiving"

\* runtime.rs:360-364, read returns Ok(0)
ReadEmpty(c) ==
    /\ receiving(c)
    /\ conns' = commit(c, run_to_await(
           [conns[c] EXCEPT !.nread = @ + 1, !.last_read = "eof",
                            !.pc = "Trigger", !.event = "disconnect",
                            !.message = None, !.next = 1]))
    /\ UNCHANGED <<main_pc, source, servers, faults, reads>>
    /\ UNCHANGED harness_vars

\* runtime.rs:365-376, read returns Ok(n) and the bytes are valid UTF-8
ReadChunk(c) ==
    /\ receiving(c)
    /\ reads < MaxReads
    /\ reads' = reads + 1
    /\ \E msg \in ReadChunks :
         conns' = commit(c, run_to_await(
           [conns[c] EXCEPT !.nread = @ + 1, !.last_read = "chunk",
                            !.pc = "Trigger", !.event = "message",
                            !.message = Some(trim_end_matches_crlf(msg)),
                            !.next = 1]))
    /\ UNCHANGED <<main_pc, source, servers, faults>>
    /\ UNCHANGED harness_vars

\* runtime.rs:368-371 with break in place of continue
invalid_utf8_breaks(conn) ==
    [conn EXCEPT !.nread = @ + 1, !.last_read = "invalid", !.pc = "Closed"]

\* runtime.rs:366-371: from_utf8 fails, the error is logged, continue
invalid_utf8(conn) ==
    [conn EXCEPT !.nread = @ + 1, !.last_read = "invalid"]

\* runtime.rs:365-371, read returns Ok(n) and the bytes are not valid UTF-8
ReadInvalidUtf8(c) ==
    /\ receiving(c)
    /\ reads < MaxReads
    /\ reads' = reads + 1
    /\ conns' = commit(c, invalid_utf8(conns[c]))
    /\ UNCHANGED <<main_pc, source, servers, faults>>
    /\ UNCHANGED harness_vars

\* runtime.rs:377-380 with the disconnect handlers fired as on Ok(0)
read_error_fires_disconnect(conn) ==
    run_to_await([conn EXCEPT !.nread = @ + 1, !.last_read = "error",
                              !.pc = "Trigger", !.event = "disconnect",
                              !.message = None, !.next = 1])

\* runtime.rs:377-380: the error is logged, break
read_error(conn) ==
    [conn EXCEPT !.nread = @ + 1, !.last_read = "error", !.pc = "Closed"]

\* runtime.rs:377-380 with the read awaited in the accept loop instead of
\* in a task of its own: the error ends the listener with the connection
ReadError_in_accept_loop(c) ==
    /\ receiving(c)
    /\ faults < MaxFaults
    /\ faults' = faults + 1
    /\ conns' = commit(c, read_error(conns[c]))
    /\ servers' = [servers EXCEPT ![conns[c].srv].state = "Panicked"]
    /\ UNCHANGED <<main_pc, source, reads>>
    /\ UNCHANGED harness_vars

\* runtime.rs:377-380, read returns Err
ReadError(c) ==
    /\ receiving(c)
    /\ faults < MaxFaults
    /\ faults' = faults + 1
    /\ conns' = commit(c, read_error(conns[c]))
    /\ UNCHANGED <<main_pc, source, servers, reads>>
    /\ UNCHANGED harness_vars

(***************************************************************************)
(* The end of main (src/src/main.rs:12-53, src/src/interpreter.rs:19-22).  *)
(***************************************************************************)
\* a task of the runtime when the runtime is dropped: a task that has not
\* returned is dropped at the await it is suspended in

shutdown(conn) == IF conn.pc = "Closed" THEN conn ELSE [conn EXCEPT !.pc = "Cancelled"]

\* interpreter.rs:20-22, main.rs:52-53: every handle has completed (a server
\* task ends only by the panic of expect or unwrap, which handle.await
\* returns as an Err that is ignored), interpret returns, main returns and
\* the runtime of #[tokio::main] is dropped with the tasks it still holds
MainReturn ==
    /\ main_pc = "await"
    /\ \A s \in DOMAIN servers : servers[s].state = "Panicked"
    /\ main_pc' = "exit"
    /\ conns' = [c \in DOMAIN conns |-> shutdown(conns[c])]
    /\ UNCHANGED <<source, servers, faults, reads>>
    /\ UNCHANGED harness_vars

Next ==
    \/ MainLex
    \/ MainParse
    \/ interpret
    \/ \E s \in DOMAIN servers : Bind(s)
    \/ \E s \in DOMAIN servers : BindFail(s)
    \/ \E s \in DOMAIN servers : Accept(s)
    \/ \E s \in DOMAIN servers : AcceptFail(s)
    \/ \E c \in DOMAIN conns : ConnectionStart(c)
    \/ \E c \in DOMAIN conns : SendOk(c)
    \/ \E c \in DOMAIN conns : SendFail(c)
    \/ \E c \in DOMAIN conns : ReadEmpty(c)
    \/ \E c \in DOMAIN conns : ReadChunk(c)
    \/ \E c \in DOMAIN conns : ReadInvalidUtf8(c)
    \/ \E c \in DOMAIN conns : ReadError(c)
    \/ MainReturn

Spec == Init /\ [][Next]_vars

(***************************************************************************)
(* The lexer (src/src/lexer.rs).                                           *)
(*                                                                         *)
(* lex reads the source through a cursor; here i is the 1-based index of   *)
(* the next character, line and column are the two counters of lex.  A     *)
(* token is a record of its type and, for Ident, String, Number and        *)
(* Variable, its text.  An error carries the line and column that lex      *)
(* reports and, for the properties, the index `at` in the source of the    *)
(* character the error is about (the opening quote for                     *)
(* UnterminatedString).                                                    *)
(***************************************************************************)
Tok(type) == [type |-> type, text |-> << >>]
TokT(type, text) == [type |-> type, text |-> text]

LexOk(tokens) == [ok |-> TRUE, tokens |-> tokens]
LexErr(error, line, column, at) ==
    [ok |-> FALSE, error |-> error, line |-> line, column |-> column, at |-> at]

\* the least index k >= i with src[k] in chars, Len(src) + 1 when none
scan_to(src, i, chars) ==
    LET hits == {k \in i..Len(src) : src[k] \in chars}
    IN IF hits = {} THEN Len(src) + 1 ELSE CHOOSE k \in hits : \A j \in hits : k <= j

\* lexer.rs:43-58, read_ident: the index after the identifier characters
RECURSIVE ident_end(_, _)
ident_end(src, i) ==
    IF i <= Len(src) /\ (is_alphanumeric(src[i]) \/ src[i] = "_")
    THEN ident_end(src, i + 1)
    ELSE i

\* lexer.rs:294-302: the index after a run of ASCII digits
RECURSIVE digits_end(_, _)
digits_end(src, i) ==
    IF i <= Len(src) /\ is_ascii_digit(src[i]) THEN digits_end(src, i + 1) ELSE i

\* lexer.rs:60-82, read_method_chain: after each '.', every character up
\* to and including the next ')' is taken, whatever it is
RECURSIVE method_chain_end(_, _)
method_chain_end(src, i) ==
    IF i <= Len(src) /\ src[i] = "."
    THEN LET close == scan_to(src, i + 1, {")"})
         IN method_chain_end(src, IF close > Len(src) THEN close ELSE close + 1)
    ELSE i

\* lexer.rs:227-240: the index of the '}' that brings depth to 0,
\* Len(src) + 1 when the source ends first
RECURSIVE brace_end(_, _, _)
brace_end(src, i, depth) ==
    IF i > Len(src) THEN i
    ELSE IF src[i] = "{" THEN brace_end(src, i + 1, depth + 1)
    ELSE IF src[i] = "}"
         THEN IF depth - 1 = 0 THEN i ELSE brace_end(src, i + 1, depth - 1)
    ELSE brace_end(src, i + 1, depth)

\* lexer.rs:102-112
PunctuationChars == {"{", "}", "(", ")", ":", ".", ",", "+", "-", "*", "%"}
punctuation(c) ==
    CASE c = "{" -> "LBrace" [] c = "}" -> "RBrace" [] c = "(" -> "LParen"
      [] c = ")" -> "RParen" [] c = ":" -> "Colon" [] c = "." -> "Dot"
      [] c = "," -> "Comma" [] c = "+" -> "Plus" [] c = "-" -> "Minus"
      [] c = "*" -> "Star" [] c = "%" -> "Percent"

\* lexer.rs:277-287
keyword_or_ident(ident) ==
    CASE ident = <<"s", "e", "r", "v", "e", "r">> -> Tok("Server")
      [] ident = <<"t", "c", "p">> -> Tok("TCP")
      [] ident = <<"o", "n">> -> Tok("On")
      [] ident = <<"l", "o", "g">> -> Tok("Log")
      [] ident = <<"s", "e", "n", "d">> -> Tok("Send")
      [] ident = <<"s", "e", "t">> -> Tok("Set")
      [] ident = <<"i", "f">> -> Tok("If")
      [] ident = <<"e", "l", "s", "e">> -> Tok("Else")
      [] OTHER -> TokT("Ident", ident)

\* lexer.rs:196-202
EscapeChars == {"n", "t", "r", "\\", "\""}
unescape(c) ==
    CASE c = "n" -> "\n" [] c = "t" -> "\t" [] c = "r" -> "\r"
      [] c = "\\" -> "\\" [] c = "\"" -> "\""

\* lexer.rs:313 with '#' skipped as well
separator_or_hash_skipped(c) == c \in {";", "#"}

\* lexer.rs:313: ';' is skipped (the ',' of that arm is taken by line 108)
separator_skipped(c) == c = ";"

RECURSIVE lex_loop(_, _, _, _, _)
RECURSIVE lex_string(_, _, _, _, _, _, _)

\* lexer.rs:113-170: an operator of one or two characters; single is "" when
\* the first character alone is an error
lex_operator(src, i, line, column, tokens, second, both, single) ==
    IF i + 1 <= Len(src) /\ src[i + 1] = second
    THEN lex_loop(src, i + 2, line, column + 2, Append(tokens, Tok(both)))
    ELSE IF single = "" THEN LexErr("UnexpectedCharacter", line, column, i)
    ELSE lex_loop(src, i + 1, line, column + 1, Append(tokens, Tok(single)))

\* lexer.rs:173-263: the characters of a string literal, from index i; s is
\* the text collected so far, start the position of the opening quote
lex_string(src, i, line, column, s, start, tokens) ==
    LET unterminated ==
            LexErr("UnterminatedString", start.line, start.column, start.at)
    IN
    IF i > Len(src) THEN unterminated
    ELSE
      LET ch == src[i]
          col == column + 1
      IN CASE ch = "\"" ->
                lex_loop(src, i + 1, line, col, Append(tokens, TokT("String", s)))
           [] ch = "\n" -> unterminated
           [] ch = "\\" ->
                IF i + 1 > Len(src) THEN unterminated
                ELSE IF src[i + 1] \in EscapeChars
                     THEN lex_string(src, i + 2, line, col + 1,
                                     Append(s, unescape(src[i + 1])), start, tokens)
                ELSE LexErr("InvalidEscape", line, (col + 1) - 1, i + 1)
           [] ch = "$" ->
                IF i + 1 <= Len(src) /\ src[i + 1] = "{"
                THEN LET close == brace_end(src, i + 2, 1)
                         inner == SubSeq(src, i + 2, close - 1)
                         opened == s \o <<"{", "{", "$", "{">> \o inner
                     IN IF close > Len(src)
                        THEN lex_string(src, close, line, col + 1 + Len(inner),
                                        opened, start, tokens)
                        ELSE lex_string(src, close + 1, line, col + 1 + Len(inner) + 1,
                                        opened \o <<"}", "}">>, start, tokens)
                ELSE LET end == method_chain_end(src, ident_end(src, i + 1))
                         var_expr == <<"$">> \o SubSeq(src, i + 1, end - 1)
                     IN lex_string(src, end, line, col + (end - (i + 1)),
                                   s \o <<"{", "{">> \o var_expr \o <<"}", "}">>,
                                   start, tokens)
           [] OTHER -> lex_string(src, i + 1, line, col, Append(s, ch), start, tokens)

\* lexer.rs:84-322: the main loop
lex_loop(src, i, line, column, tokens) ==
    IF i > Len(src) THEN LexOk(Append(tokens, Tok("EOF")))
    ELSE
      LET c == src[i] IN
      CASE c = "/" ->
             IF i + 1 <= Len(src) /\ src[i + 1] = "/"
             THEN LET end == scan_to(src, i + 2, {"\n"})
                  IN lex_loop(src, end, line, column + (end - (i + 2)), tokens)
             ELSE lex_loop(src, i + 1, line, column + 1, Append(tokens, Tok("Slash")))
        [] c \in PunctuationChars ->
             \* the token is pushed and column is left as it is
             lex_loop(src, i + 1, line, column, Append(tokens, Tok(punctuation(c))))
        [] c = "=" ->
             lex_operator(src, i, line, column, tokens, "=", "EqualsEquals", "Equals")
        [] c = "&" -> lex_operator(src, i, line, column, tokens, "&", "And", "")
        [] c = "|" -> lex_operator(src, i, line, column, tokens, "|", "Or", "")
        [] c = "!" -> lex_operator(src, i, line, column, tokens, "=", "NotEquals", "Not")
        [] c = ">" ->
             lex_operator(src, i, line, column, tokens, "=", "GreaterEquals", "GreaterThan")
        [] c = "<" ->
             lex_operator(src, i, line, column, tokens, "=", "LessEquals", "LessThan")
        [] c = "\"" ->
             lex_string(src, i + 1, line, column + 1, << >>,
                        [line |-> line, column |-> column, at |-> i], tokens)
        [] c = "$" ->
             LET end == ident_end(src, i + 1)
             IN lex_loop(src, end, line, column + 1 + (end - (i + 1)),
                         Append(tokens, TokT("Variable", SubSeq(src, i + 1, end - 1))))
        [] is_alphabetic(c) ->
             LET end == ident_end(src, i + 1)
             IN lex_loop(src, end, line, column + 1 + (end - (i + 1)),
                         Append(tokens, keyword_or_ident(SubSeq(src, i, end - 1))))
        [] is_ascii_digit(c) ->
             LET end == digits_end(src, i + 1)
             IN lex_loop(src, end, line, column + 1 + (end - (i + 1)),
                         Append(tokens, TokT("Number", SubSeq(src, i, end - 1))))
        [] c = "\n" -> lex_loop(src, i + 1, line + 1, 1, tokens)
        [] is_whitespace(c) /\ c # "\n" -> lex_loop(src, i + 1, line, column + 1, tokens)
        [] separator_skipped(c) -> lex_loop(src, i + 1, line, column + 1, tokens)
        [] OTHER -> LexErr("UnexpectedCharacter", line, column, i)

\* lexer.rs:37-41
lex(src) == lex_loop(src, 1, 1, 1, << >>)

(***************************************************************************)
(* The harness of lex: one call on a bounded source.  The sources are      *)
(* short texts over three alphabets: one of characters met outside         *)
(* strings, two of characters met in string literals (with a ${ } span,    *)
(* with a method chain).  None holds a backslash.                          *)
(***************************************************************************)
SourceAlphabet == {"{", "#", ";", "a", " ", "\n", "=", "/", "\"", "&"}
SpanAlphabet == {"\"", "$", "{", "}", "\n"}
ChainAlphabet == {"\"", "$", ".", ")", "\n"}

LexSources ==
    Texts(SourceAlphabet, MaxSrc) \cup Texts(SpanAlphabet, MaxStr)
      \cup Texts(ChainAlphabet, MaxStr)

InitLex ==
    /\ RuntimeIdle
    /\ TemplateIdle
    /\ h_pc = "call"
    /\ h_in \in LexSources
    /\ h_out = << >>

CallLex ==
    /\ h_pc = "call"
    /\ h_out' = lex(h_in)
    /\ h_pc' = "done"
    /\ UNCHANGED h_in
    /\ UNCHANGED runtime_vars
    /\ UNCHANGED template_vars

NextLex == CallLex

SpecLex == InitLex /\ [][NextLex]_vars

(***************************************************************************)
(* The parser (src/src/parser.rs).                                         *)
(*                                                                         *)
(* A parsing function takes the tokens and the cursor i (here 1-based, so  *)
(* that the test *i >= tokens.len() of the code is i > Len(tokens)) and    *)
(* returns Ok with its value and the cursor after it, or the error.        *)
(***************************************************************************)
BinaryOpE(left, op, right) ==
    [kind |-> "BinaryOp", left |-> left, op |-> op, right |-> right]
LogicalOpE(left, op, right) ==
    [kind |-> "LogicalOp", left |-> left, op |-> op, right |-> right]
UnaryOpE(op, operand) == [kind |-> "UnaryOp", op |-> op, operand |-> operand]

POk(value, i) == [ok |-> TRUE, value |-> value, i |-> i]
PErr(error, i) == [ok |-> FALSE, error |-> error, i |-> i]

is_tok(tokens, i, type) == i <= Len(tokens) /\ tokens[i].type = type

\* parser.rs:80-88
ComparisonTokens ==
    [ EqualsEquals |-> "Equal", NotEquals |-> "NotEqual",
      GreaterThan |-> "GreaterThan", LessThan |-> "LessThan",
      GreaterEquals |-> "GreaterEqual", LessEquals |-> "LessEqual" ]

\* str::parse::<i64> of a run of digits: an error when the value is above
\* i64::MAX.  The digit runs whose value is taken are short.
RECURSIVE strip_zeros(_)
strip_zeros(text) ==
    IF Len(text) > 1 /\ Head(text) = "0" THEN strip_zeros(Tail(text)) ELSE text

RECURSIVE digits_le(_, _)
digits_le(a, b) ==
    \/ a = << >>
    \/ digit_value(Head(a)) < digit_value(Head(b))
    \/ Head(a) = Head(b) /\ digits_le(Tail(a), Tail(b))

i64_max ==
    <<"9", "2", "2", "3", "3", "7", "2", "0", "3", "6", "8", "5", "4", "7", "7",
      "5", "8", "0", "7">>

parse_i64(text) ==
    LET digits == strip_zeros(text)
    IN IF Len(digits) < Len(i64_max) \/ (Len(digits) = Len(i64_max) /\ digits_le(digits, i64_max))
       THEN Some(digits_value(digits))
       ELSE None

\* The ? of Rust: the error of a result is returned at once, the rest of
\* the function runs on an Ok result.
Try(result, rest(_)) == IF result.ok THEN rest(result) ELSE result

RECURSIVE parse_logical_or(_, _)
RECURSIVE parse_logical_and(_, _)
RECURSIVE parse_comparison(_, _)
RECURSIVE parse_unary(_, _)
RECURSIVE parse_primary_expression(_, _)
RECURSIVE or_loop(_, _, _)
RECURSIVE and_loop(_, _, _)
RECURSIVE method_loop(_, _, _)
RECURSIVE args_loop(_, _, _)

\* parser.rs:32-34
parse_expression(tokens, i) == parse_logical_or(tokens, i)

\* parser.rs:39-47
or_loop(tokens, left, i) ==
    IF is_tok(tokens, i, "Or")
    THEN Try(parse_logical_and(tokens, i + 1),
             LAMBDA right :
               or_loop(tokens, LogicalOpE(left, "Or", right.value), right.i))
    ELSE POk(left, i)

\* parser.rs:36-50
parse_logical_or(tokens, i) ==
    Try(parse_logical_and(tokens, i),
        LAMBDA left : or_loop(tokens, left.value, left.i))

\* parser.rs:53, 57 with the operands of && read by parse_unary
and_operand_unary(tokens, i) == parse_unary(tokens, i)

\* parser.rs:53, 57: an operand of && is a comparison
and_operand(tokens, i) == parse_comparison(tokens, i)

\* parser.rs:55-63
and_loop(tokens, left, i) ==
    IF is_tok(tokens, i, "And")
    THEN Try(and_operand(tokens, i + 1),
             LAMBDA right :
               and_loop(tokens, LogicalOpE(left, "And", right.value), right.i))
    ELSE POk(left, i)

\* parser.rs:52-66
parse_logical_and(tokens, i) ==
    Try(and_operand(tokens, i),
        LAMBDA left : and_loop(tokens, left.value, left.i))

\* parser.rs:78-99: the comparison operator after the left operand, if any
comparison_rest(tokens, expr) ==
    IF expr.i <= Len(tokens) /\ tokens[expr.i].type \in DOMAIN ComparisonTokens
    THEN Try(parse_unary(tokens, expr.i + 1),
             LAMBDA right :
               POk(BinaryOpE(expr.value, ComparisonTokens[tokens[expr.i].type],
                             right.value),
                   right.i))
    ELSE expr

\* parser.rs:68-102
parse_comparison(tokens, i) ==
    IF i > Len(tokens) THEN PErr("UnexpectedEof", i)
    ELSE Try(parse_unary(tokens, i), LAMBDA expr : comparison_rest(tokens, expr))

\* parser.rs:104-122
parse_unary(tokens, i) ==
    IF i > Len(tokens) THEN PErr("UnexpectedEof", i)
    ELSE IF tokens[i].type = "Not"
         THEN Try(parse_unary(tokens, i + 1),
                  LAMBDA operand : POk(UnaryOpE("Not", operand.value), operand.i))
    ELSE parse_primary_expression(tokens, i)

\* parser.rs:192-202: the arguments of a method call, up to the token that
\* is not a comma after an argument
args_loop(tokens, args, i) ==
    IF i <= Len(tokens) /\ tokens[i].type # "RParen"
    THEN Try(parse_expression(tokens, i),
             LAMBDA arg_expr :
               IF is_tok(tokens, arg_expr.i, "Comma")
               THEN args_loop(tokens, Append(args, arg_expr.value), arg_expr.i + 1)
               ELSE POk(Append(args, arg_expr.value), arg_expr.i))
    ELSE POk(args, i)

\* parser.rs:217-221
method_arg(args) ==
    IF Len(args) = 0 THEN None
    ELSE IF Len(args) = 1 THEN Some(args[1])
    ELSE Some(TupleE(args))

\* parser.rs:172-228: the chain of .method(...) suffixes
method_loop(tokens, expr, i) ==
    IF ~is_tok(tokens, i, "Dot") THEN POk(expr, i)
    ELSE IF ~is_tok(tokens, i + 1, "Ident") THEN PErr("UnexpectedToken", i + 1)
    ELSE IF ~is_tok(tokens, i + 2, "LParen")
         THEN method_loop(tokens, MethodCallE(expr, tokens[i + 1].text, None), i + 2)
    ELSE Try(args_loop(tokens, << >>, i + 3),
             LAMBDA args :
               IF is_tok(tokens, args.i, "RParen")
               THEN method_loop(tokens,
                                MethodCallE(expr, tokens[i + 1].text,
                                            method_arg(args.value)),
                                args.i + 1)
               ELSE PErr("UnexpectedToken", args.i))

\* parser.rs:148-169: the literal a primary expression starts with
base_expression(tokens, i) ==
    CASE tokens[i].type = "String" -> POk(StringE(tokens[i].text), i + 1)
      [] tokens[i].type \in {"Variable", "Ident"} ->
           POk(VariableE(tokens[i].text), i + 1)
      [] tokens[i].type = "Number" ->
           IF parse_i64(tokens[i].text) = None THEN PErr("InvalidExpression", i)
           ELSE POk(NumberE(parse_i64(tokens[i].text)[1]), i + 1)
      [] OTHER -> PErr("UnexpectedToken", i)

\* parser.rs:124-231
parse_primary_expression(tokens, i) ==
    IF i > Len(tokens) THEN PErr("UnexpectedEof", i)
    ELSE IF tokens[i].type = "LParen"
         THEN Try(parse_expression(tokens, i + 1),
                  LAMBDA expr :
                    IF ~is_tok(tokens, expr.i, "RParen")
                    THEN PErr("UnexpectedToken", expr.i)
                    \* return Ok(expr): the suffixes are not looked at
                    ELSE POk(expr.value, expr.i + 1))
    ELSE Try(base_expression(tokens, i),
             LAMBDA expr : method_loop(tokens, expr.value, expr.i))

RECURSIVE parse_single_statement(_, _)
RECURSIVE block_loop(_, _, _, _)
RECURSIVE else_if_loop(_, _, _)

\* parser.rs:263-265, 530-532: the statements of a body, up to a '}' (or,
\* in the body of an `on` block, up to the EOF token) or the end of tokens
block_loop(tokens, stmts, i, stop_at_eof) ==
    IF i <= Len(tokens) /\ tokens[i].type # "RBrace"
       /\ ~(stop_at_eof /\ tokens[i].type = "EOF")
    THEN Try(parse_single_statement(tokens, i),
             LAMBDA stmt :
               block_loop(tokens, Append(stmts, stmt.value), stmt.i, stop_at_eof))
    ELSE POk(stmts, i)

\* parser.rs:253-272: `{`, statements, `}` of a branch of an If
braced_block(tokens, i) ==
    IF ~is_tok(tokens, i, "LBrace") THEN PErr("UnexpectedToken", i)
    ELSE Try(block_loop(tokens, << >>, i + 1, FALSE),
             LAMBDA body :
               IF ~is_tok(tokens, body.i, "RBrace") THEN PErr("UnexpectedEof", body.i)
               ELSE POk(body.value, body.i + 1))

\* parser.rs:275-310: the `else if` branches
else_if_loop(tokens, else_ifs, i) ==
    IF is_tok(tokens, i, "Else") /\ is_tok(tokens, i + 1, "If")
    THEN Try(parse_expression(tokens, i + 2),
             LAMBDA condition :
               Try(braced_block(tokens, condition.i),
                   LAMBDA body :
                     else_if_loop(tokens,
                                  Append(else_ifs, <<condition.value, body.value>>),
                                  body.i)))
    ELSE POk(else_ifs, i)

\* parser.rs:312-340: the final else block, if any
else_block(tokens, i) ==
    IF is_tok(tokens, i, "Else")
    THEN Try(braced_block(tokens, i + 1),
             LAMBDA else_stmts : POk(Some(else_stmts.value), else_stmts.i))
    ELSE POk(None, i)

\* parser.rs:249-343
parse_if(tokens, i) ==
    Try(parse_expression(tokens, i + 1),
        LAMBDA condition :
          Try(braced_block(tokens, condition.i),
              LAMBDA then_body :
                Try(else_if_loop(tokens, << >>, then_body.i),
                    LAMBDA else_ifs :
                      Try(else_block(tokens, else_ifs.i),
                          LAMBDA else_body :
                            POk(IfS(condition.value, then_body.value,
                                    else_ifs.value, else_body.value),
                                else_body.i)))))

\* parser.rs:344-374
parse_set(tokens, i) ==
    IF i + 1 > Len(tokens) THEN PErr("UnexpectedEof", i + 1)
    ELSE IF tokens[i + 1].type # "Ident" THEN PErr("UnexpectedToken", i + 1)
    ELSE IF ~is_tok(tokens, i + 2, "Equals") THEN PErr("UnexpectedToken", i + 2)
    ELSE Try(parse_expression(tokens, i + 3),
             LAMBDA value : POk(SetVarS(tokens[i + 1].text, value.value), value.i))

\* parser.rs:375-398, 399-422: `(`, an expression and `)` after log or send
parse_call(tokens, i) ==
    IF ~is_tok(tokens, i + 1, "LParen") THEN PErr("UnexpectedToken", i + 1)
    ELSE Try(parse_expression(tokens, i + 2),
             LAMBDA expr :
               IF ~is_tok(tokens, expr.i, "RParen") THEN PErr("UnexpectedToken", expr.i)
               ELSE POk(IF tokens[i].type = "Log" THEN LogS(expr.value)
                        ELSE SendS(expr.value),
                        expr.i + 1))

\* parser.rs:234-431
parse_single_statement(tokens, i) ==
    IF i > Len(tokens) THEN PErr("UnexpectedEof", i)
    ELSE CASE tokens[i].type = "Ident" /\ is_tok(tokens, i + 1, "Equals") ->
                Try(parse_expression(tokens, i + 2),
                    LAMBDA value : POk(SetVarS(tokens[i].text, value.value), value.i))
           [] tokens[i].type = "If" -> parse_if(tokens, i)
           [] tokens[i].type = "Set" -> parse_set(tokens, i)
           [] tokens[i].type \in {"Log", "Send"} -> parse_call(tokens, i)
           [] OTHER -> PErr("UnexpectedToken", i)

\* parser.rs:492-560: one `on` block of a server body
parse_on(tokens, i) ==
    IF i + 1 > Len(tokens) THEN PErr("UnexpectedEof", i + 1)
    ELSE IF tokens[i + 1].type # "Ident" THEN PErr("UnexpectedToken", i + 1)
    ELSE IF i + 2 > Len(tokens) THEN PErr("UnexpectedEof", i + 2)
    ELSE IF tokens[i + 2].type # "LBrace" THEN PErr("UnexpectedToken", i + 2)
    ELSE Try(block_loop(tokens, << >>, i + 3, TRUE),
             LAMBDA inner :
               IF inner.i > Len(tokens) THEN PErr("UnexpectedEof", inner.i)
               ELSE IF tokens[inner.i].type # "RBrace"
                    THEN PErr("UnexpectedToken", inner.i)
               ELSE POk(OnS(tokens[i + 1].text, inner.value), inner.i + 1))

\* parser.rs:491-561: the body of a server, up to a '}' or the EOF token
RECURSIVE on_loop(_, _, _)
on_loop(tokens, body, i) ==
    IF i <= Len(tokens) /\ tokens[i].type \notin {"RBrace", "EOF"}
    THEN IF tokens[i].type = "On"
         THEN Try(parse_on(tokens, i),
                  LAMBDA on : on_loop(tokens, Append(body, on.value), on.i))
         ELSE PErr("UnexpectedToken", i)
    ELSE POk(body, i)

\* parser.rs:563-571: after the body, the end of the tokens is an error and
\* a '}' is skipped; any other token (the EOF token) is left where it is
close_server(tokens, i) ==
    IF i > Len(tokens) THEN PErr("UnexpectedEof", i)
    ELSE IF tokens[i].type = "RBrace" THEN POk(<< >>, i + 1)
    ELSE POk(<< >>, i)

\* parser.rs:439-578: one server declaration
parse_server(tokens, i) ==
    IF i + 1 > Len(tokens) THEN PErr("UnexpectedEof", i + 1)
    ELSE IF tokens[i + 1].type # "TCP" THEN PErr("UnexpectedToken", i + 1)
    ELSE IF i + 2 > Len(tokens) THEN PErr("UnexpectedEof", i + 2)
    ELSE IF tokens[i + 2].type # "String" THEN PErr("UnexpectedToken", i + 2)
    ELSE IF i + 3 > Len(tokens) THEN PErr("UnexpectedEof", i + 3)
    ELSE IF tokens[i + 3].type # "LBrace" THEN PErr("UnexpectedToken", i + 3)
    ELSE Try(on_loop(tokens, << >>, i + 4),
             LAMBDA body :
               Try(close_server(tokens, body.i),
                   LAMBDA closed :
                     POk(ServerS(<<"t", "c", "p">>, tokens[i + 2].text, body.value),
                         closed.i)))

\* parser.rs:437-588: the loop over the top-level declarations
RECURSIVE parse_loop(_, _, _)
parse_loop(tokens, stmts, i) ==
    IF i > Len(tokens) THEN POk(stmts, i)
    ELSE CASE tokens[i].type = "Server" ->
                Try(parse_server(tokens, i),
                    LAMBDA server :
                      parse_loop(tokens, Append(stmts, server.value), server.i))
           [] tokens[i].type = "EOF" -> POk(stmts, i)
           [] OTHER -> PErr("UnexpectedToken", i)

\* parser.rs:433-591
parse(tokens) == parse_loop(tokens, << >>, 1)

(***************************************************************************)
(* The harness of the parser, in two calls.  CallParse does what main does *)
(* with a source: lex, then parse when lex succeeded; the sources are the  *)
(* prefixes of three scripts.  CallParseExpression applies                 *)
(* parse_expression to the tokens of a bounded expression followed by the  *)
(* EOF token of lex; the k-th identifier of an expression is named by the  *)
(* k-th letter.                                                            *)
(***************************************************************************)
\* server tcp ":9" { on a { if a { send(a) } else { x = 1 } } }
IfScript ==
    <<"s", "e", "r", "v", "e", "r", " ", "t", "c", "p", " ", "\"", ":",
      "9", "\"", " ", "{", " ", "o", "n", " ", "a", " ", "{", " ", "i",
      "f", " ", "a", " ", "{", " ", "s", "e", "n", "d", "(", "a", ")",
      " ", "}", " ", "e", "l", "s", "e", " ", "{", " ", "x", " ", "=",
      " ", "1", " ", "}", " ", "}", " ", "}">>

\* server tcp ":9" { / on a { if !a { log("b") } else if a == b { set x = a } } / }
ElseIfScript ==
    <<"s", "e", "r", "v", "e", "r", " ", "t", "c", "p", " ", "\"", ":",
      "9", "\"", " ", "{", "\n", "o", "n", " ", "a", " ", "{", " ", "i",
      "f", " ", "!", "a", " ", "{", " ", "l", "o", "g", "(", "\"", "b",
      "\"", ")", " ", "}", " ", "e", "l", "s", "e", " ", "i", "f", " ",
      "a", " ", "=", "=", " ", "b", " ", "{", " ", "s", "e", "t", " ",
      "x", " ", "=", " ", "a", " ", "}", " ", "}", "\n", "}">>

\* server tcp ":9" { on a { send(a.upper(b, c)) } } server tcp
ChainScript ==
    <<"s", "e", "r", "v", "e", "r", " ", "t", "c", "p", " ", "\"", ":",
      "9", "\"", " ", "{", " ", "o", "n", " ", "a", " ", "{", " ", "s",
      "e", "n", "d", "(", "a", ".", "u", "p", "p", "e", "r", "(", "b",
      ",", " ", "c", ")", ")", " ", "}", " ", "}", " ", "s", "e", "r",
      "v", "e", "r", " ", "t", "c", "p">>

ParseScripts == {IfScript, ElseIfScript, ChainScript}
ParseSources == UNION {{SubSeq(s, 1, n) : n \in 0..Len(s)} : s \in ParseScripts}

ExprSymbols ==
    {"Ident", "Or", "And", "EqualsEquals", "Not", "LParen", "RParen", "Dot"}
IdentNames == <<"a", "b", "c", "d", "e", "f", "g", "h">>

symbol_token(symbols, k) ==
    IF symbols[k] = "Ident"
    THEN TokT("Ident",
              <<IdentNames[Cardinality({j \in 1..k : symbols[j] = "Ident"})]>>)
    ELSE Tok(symbols[k])

expr_tokens(symbols) ==
    [k \in 1..Len(symbols) |-> symbol_token(symbols, k)] \o <<Tok("EOF")>>

ParseInputs ==
    {[kind |-> "source", src |-> s, tokens |-> << >>] : s \in ParseSources}
      \cup {[kind |-> "expression", src |-> << >>, tokens |-> expr_tokens(s)] :
               s \in Texts(ExprSymbols, MaxTokens)}

InitParse ==
    /\ RuntimeIdle
    /\ TemplateIdle
    /\ h_pc = "call"
    /\ h_in \in ParseInputs
    /\ h_out = << >>

\* main.rs:36-50: lex(&src), then parse(tokens)
CallParse ==
    /\ h_pc = "call"
    /\ h_in.kind = "source"
    /\ h_out' = Try(lex(h_in.src), LAMBDA lexed : parse(lexed.tokens))
    /\ h_pc' = "done"
    /\ UNCHANGED h_in
    /\ UNCHANGED runtime_vars
    /\ UNCHANGED template_vars

CallParseExpression ==
    /\ h_pc = "call"
    /\ h_in.kind = "expression"
    /\ h_out' = parse_expression(h_in.tokens, 1)
    /\ h_pc' = "done"
    /\ UNCHANGED h_in
    /\ UNCHANGED runtime_vars
    /\ UNCHANGED template_vars

NextParse == CallParse \/ CallParseExpression

SpecParse == InitParse /\ [][NextParse]_vars

(***************************************************************************)
(* The harness of the bind address: run_server computes it from the port   *)
(* string of a server declaration, here any short text over a colon, a     *)
(* digit and a letter.                                                     *)
(***************************************************************************)
PortAlphabet == {":", "9", "h"}

InitBind ==
    /\ RuntimeIdle
    /\ TemplateIdle
    /\ h_pc = "call"
    /\ h_in \in Texts(PortAlphabet, MaxPort)
    /\ h_out = << >>

\* runtime.rs:334-341: the address handed to TcpListener::bind
CallBindAddr ==
    /\ h_pc = "call"
    /\ h_out' = bind_addr(h_in)
    /\ h_pc' = "done"
    /\ UNCHANGED h_in
    /\ UNCHANGED runtime_vars
    /\ UNCHANGED template_vars

NextBind == CallBindAddr

SpecBind == InitBind /\ [][NextBind]_vars

(***************************************************************************)
(* execute_statements (src/src/runtime.rs:248-307), one call of it step by *)
(* step.  h_in holds the arguments of the call, h_out the task that runs   *)
(* it and h_pc where the task is:                                          *)
(*   "stmt"        at the head of the loop, cont being the statements      *)
(*                 still to run (those of a branch, then those after the   *)
(*                 If in the enclosing call); every statement starts with  *)
(*                 vars.read().await;                                      *)
(*   "reading"     holding the read guard, before eval_expression;         *)
(*   "write_wait"  in vars.write().await of a SetVar;                      *)
(*   "writing"     holding the write guard, before insert;                 *)
(*   "branch"      about to await the nested call on the selected body;    *)
(*   "socket"      in socket.write_all(...).await of a Send;               *)
(*   "done", "err" returned Ok(()), returned the error of the write.       *)
(* The store is an Arc<RwLock<HashMap>> that only this task holds, so held *)
(* (the guards the task holds) is the state of the lock.  The task keeps   *)
(* for the properties: ifs, the condition text and the selected body of    *)
(* each If; sets, the store before and after each insert.                  *)
(***************************************************************************)
start_task(args) ==
    [cont |-> args.stmts, vars |-> args.vars, message |-> args.message,
     client |-> <<"1">>, held |-> {}, evaluated |-> << >>, branch |-> None,
     ifs |-> << >>, sets |-> << >>, stdout |-> << >>, out |-> << >>]

\* tokio::sync::RwLock: read() completes when no write guard is held,
\* write() when no guard is held
can_read(held) == "write" \notin held
can_write(held) == held = {}

\* runtime.rs:262, 273, 290, 296 with drop(vars_read) left out
drop_read_forgotten(held) == held

\* runtime.rs:262, 273, 290, 296: drop(vars_read)
drop_read(held) == held \ {"read"}

\* runtime.rs:266: drop(vars_write)
drop_write(held) == held \ {"write"}

at_statement(kind) ==
    /\ h_pc = "reading"
    /\ Head(h_out.cont).kind = kind

\* runtime.rs:260, 271, 288, 294: vars.read().await returns the guard
AcquireRead ==
    /\ h_pc = "stmt"
    /\ h_out.cont # << >>
    /\ Head(h_out.cont).kind \in {"SetVar", "If", "Log", "Send"}
    /\ can_read(h_out.held)
    /\ h_out' = [h_out EXCEPT !.held = h_out.held \cup {"read"}]
    /\ h_pc' = "reading"
    /\ UNCHANGED h_in
    /\ UNCHANGED runtime_vars
    /\ UNCHANGED template_vars

\* runtime.rs:302: a statement of another kind does nothing
SkipStatement ==
    /\ h_pc = "stmt"
    /\ h_out.cont # << >>
    /\ Head(h_out.cont).kind \notin {"SetVar", "If", "Log", "Send"}
    /\ h_out' = [h_out EXCEPT !.cont = Tail(h_out.cont)]
    /\ UNCHANGED <<h_pc, h_in>>
    /\ UNCHANGED runtime_vars
    /\ UNCHANGED template_vars

\* runtime.rs:261-262
EvalSetVar ==
    /\ at_statement("SetVar")
    /\ h_out' = [h_out EXCEPT !.evaluated = eval_in(h_out, Head(h_out.cont).value),
                              !.held = drop_read(h_out.held)]
    /\ h_pc' = "write_wait"
    /\ UNCHANGED h_in
    /\ UNCHANGED runtime_vars
    /\ UNCHANGED template_vars

\* runtime.rs:264: vars.write().await returns the guard
AcquireWrite ==
    /\ h_pc = "write_wait"
    /\ can_write(h_out.held)
    /\ h_out' = [h_out EXCEPT !.held = h_out.held \cup {"write"}]
    /\ h_pc' = "writing"
    /\ UNCHANGED h_in
    /\ UNCHANGED runtime_vars
    /\ UNCHANGED template_vars

\* runtime.rs:265-268
InsertVar ==
    /\ h_pc = "writing"
    /\ LET stmt == Head(h_out.cont)
           inserted == store_insert(h_out.vars, stmt.name, h_out.evaluated)
       IN h_out' = [h_out EXCEPT
                      !.vars = inserted,
                      !.held = drop_write(h_out.held),
                      !.sets = Append(h_out.sets,
                                      [stmt |-> stmt, before |-> h_out.vars,
                                       after |-> inserted]),
                      !.cont = Tail(h_out.cont)]
    /\ h_pc' = "stmt"
    /\ UNCHANGED h_in
    /\ UNCHANGED runtime_vars
    /\ UNCHANGED template_vars

\* runtime.rs:272-279
EvalIf ==
    /\ at_statement("If")
    /\ h_out' = [h_out EXCEPT
                   !.evaluated = eval_in(h_out, Head(h_out.cont).condition),
                   !.branch = selected_branch(h_out, Head(h_out.cont)),
                   !.held = drop_read(h_out.held)]
    /\ h_pc' = "branch"
    /\ UNCHANGED h_in
    /\ UNCHANGED runtime_vars
    /\ UNCHANGED template_vars

\* runtime.rs:281-285: the nested call runs the selected body, then the
\* loop goes on after the If
EnterBranch ==
    /\ h_pc = "branch"
    /\ h_out' = [h_out EXCEPT
                   !.cont = unwrap_or(h_out.branch, << >>) \o Tail(h_out.cont),
                   !.ifs = Append(h_out.ifs,
                                  [stmt |-> Head(h_out.cont),
                                   condition_result |-> h_out.evaluated,
                                   branch |-> h_out.branch])]
    /\ h_pc' = "stmt"
    /\ UNCHANGED h_in
    /\ UNCHANGED runtime_vars
    /\ UNCHANGED template_vars

\* runtime.rs:289-291
EvalLog ==
    /\ at_statement("Log")
    /\ h_out' = [h_out EXCEPT
                   !.stdout = Append(h_out.stdout, eval_in(h_out, Head(h_out.cont).expr)),
                   !.held = drop_read(h_out.held),
                   !.cont = Tail(h_out.cont)]
    /\ h_pc' = "stmt"
    /\ UNCHANGED h_in
    /\ UNCHANGED runtime_vars
    /\ UNCHANGED template_vars

\* runtime.rs:295-297
EvalSend ==
    /\ at_statement("Send")
    /\ h_out' = [h_out EXCEPT
                   !.evaluated = eval_in(h_out, Head(h_out.cont).expr),
                   !.held = drop_read(h_out.held)]
    /\ h_pc' = "socket"
    /\ UNCHANGED h_in
    /\ UNCHANGED runtime_vars
    /\ UNCHANGED template_vars

\* runtime.rs:298-300: write_all and flush return Ok
WriteOk ==
    /\ h_pc = "socket"
    /\ h_out' = [h_out EXCEPT !.out = h_out.out \o msg_with_newline(h_out.evaluated),
                              !.cont = Tail(h_out.cont)]
    /\ h_pc' = "stmt"
    /\ UNCHANGED h_in
    /\ UNCHANGED runtime_vars
    /\ UNCHANGED template_vars

\* runtime.rs:298: write_all returns Err and `?` returns it
WriteErr ==
    /\ h_pc = "socket"
    /\ h_pc' = "err"
    /\ UNCHANGED <<h_in, h_out>>
    /\ UNCHANGED runtime_vars
    /\ UNCHANGED template_vars

\* runtime.rs:305: Ok(()) after the last statement
Return ==
    /\ h_pc = "stmt"
    /\ h_out.cont = << >>
    /\ h_pc' = "done"
    /\ UNCHANGED <<h_in, h_out>>
    /\ UNCHANGED runtime_vars
    /\ UNCHANGED template_vars

(***************************************************************************)
(* The calls of the harness: bodies of up to MaxStmts statements, the      *)
(* conditions being texts of each kind of truth value.                     *)
(***************************************************************************)
ExecConditions ==
    { StringE(<<"t", "r", "u", "e">>), StringE(<<"f", "a", "l", "s", "e">>),
      StringE(<<"0">>), StringE(<< >>), StringE(<<"a">>),
      VariableE(<<"n">>), VariableE(message_name) }

ExecStatements ==
    { SetVarS(<<"n">>, VariableE(message_name)),
      SetVarS(<<"q">>, MethodCallE(VariableE(<<"n">>), Method.upper, None)),
      LogS(VariableE(<<"n">>)),
      SendS(VariableE(<<"q">>)),
      OnS("message", << LogS(StringE(<<"x">>)) >>) }
    \cup { IfS(c, << SetVarS(<<"n">>, StringE(<<"0">>)) >>, << >>,
               Some(<< SendS(StringE(<<"e">>)) >>)) : c \in ExecConditions }
    \cup { IfS(c, << LogS(StringE(<<"t">>)) >>, << >>, None) :
             c \in {VariableE(<<"n">>), VariableE(<<"q">>)} }

ExecBodies == UNION {[1..k -> ExecStatements] : k \in 0..MaxStmts}

ExecMessages == {Some(<<"a">>), Some(<< >>), Some(<<"0">>)}

ExecStores ==
    { EmptyStore,
      [v \in {<<"n">>} |-> <<"f", "a", "l", "s", "e">>],
      [v \in {<<"n">>, <<"q">>} |-> IF v = <<"n">> THEN <<"b">> ELSE <<"c">>] }

InitExec ==
    /\ RuntimeIdle
    /\ TemplateIdle
    /\ h_pc = "stmt"
    /\ h_in \in [stmts : ExecBodies, message : ExecMessages, vars : ExecStores]
    /\ h_out = start_task(h_in)

NextExec ==
    \/ AcquireRead
    \/ SkipStatement
    \/ EvalSetVar
    \/ AcquireWrite
    \/ InsertVar
    \/ EvalIf
    \/ EnterBranch
    \/ EvalLog
    \/ EvalSend
    \/ WriteOk
    \/ WriteErr
    \/ Return

SpecExec == InitExec /\ [][NextExec]_vars

(***************************************************************************)
(* The harness of the BinaryOp arm of eval_expression: one comparison of   *)
(* two string literals.  The operands are the texts of up to MaxNum        *)
(* characters of an alphabet of digits, point and a letter, and a few      *)
(* others: numbers with a sign, a fraction or an exponent, nan, inf and    *)
(* words that differ in their last letter.                                 *)
(***************************************************************************)
CompareAlphabet == {"1", "9", ".", "a"}

CompareWords ==
    { <<"a", "b", "c">>, <<"a", "b", "d">>, <<"1", ".", "0">>, <<"1", "e", "1">>,
      <<"1", "0", "0">>, <<"n", "a", "n">>, <<"i", "n", "f">>, <<"-", "i", "n", "f">>,
      <<"+", "1">>, <<"A">>, <<"0">>, <<"1", "0">>, <<"-", "1">>, <<"-", "0">> }

CompareTexts == Texts(CompareAlphabet, MaxNum) \cup CompareWords

CompareOps == {ComparisonTokens[t] : t \in DOMAIN ComparisonTokens}

InitCompare ==
    /\ RuntimeIdle
    /\ TemplateIdle
    /\ h_pc = "call"
    /\ h_in \in [expr : {BinaryOpE(StringE(l), op, StringE(r)) :
                           l \in CompareTexts, op \in CompareOps, r \in CompareTexts},
                 message : {None}, client : {Some(<<"1">>)}, vars : {EmptyStore}]
    /\ h_out = << >>

SpecCompare == InitCompare /\ [][NextEval]_vars

(***************************************************************************)
(* A method chain written in a string literal and written bare              *)
(* (src/src/main.rs:36-50 for one expression): the source is lexed, the   *)
(* tokens are parsed as an expression and the expression is evaluated with *)
(* x bound in the store.                                                   *)
(***************************************************************************)
\* $x.upper()
UpperChain == <<"$", "x", ".", "u", "p", "p", "e", "r", "(", ")">>
\* $x.reverse().upper()
TwoCallsChain == <<"$", "x", ".", "r", "e", "v", "e", "r", "s", "e", "(", ")", ".", "u", "p", "p", "e", "r", "(", ")">>
\* $x.repeat(3)
RepeatChain == <<"$", "x", ".", "r", "e", "p", "e", "a", "t", "(", "3", ")">>
\* $x.contains("a")
ContainsChain == <<"$", "x", ".", "c", "o", "n", "t", "a", "i", "n", "s", "(", "\"", "a", "\"", ")">>
\* $x.remove("a")
RemoveChain == <<"$", "x", ".", "r", "e", "m", "o", "v", "e", "(", "\"", "a", "\"", ")">>
\* $x.replace("a","b")
ReplaceChain == <<"$", "x", ".", "r", "e", "p", "l", "a", "c", "e", "(", "\"", "a", "\"", ",", "\"", "b", "\"", ")">>
\* $x.repeat_sep(2,"-")
RepeatSepChain == <<"$", "x", ".", "r", "e", "p", "e", "a", "t", "_", "s", "e", "p", "(", "2", ",", "\"", "-", "\"", ")">>

NumericChains == {UpperChain, TwoCallsChain, RepeatChain}
StringChains == {ContainsChain, RemoveChain}
SeveralChains == {ReplaceChain, RepeatSepChain}
EquivChains == NumericChains \cup StringChains \cup SeveralChains

quoted(text) == <<"\"">> \o text \o <<"\"">>

\* lexer.rs:37, parser.rs:32, runtime.rs:187 in turn; an error of the lexer
\* or the parser is the outcome
eval_source(src, message, client, vs) ==
    Try(lex(src),
        LAMBDA lexed :
          Try(parse_expression(lexed.tokens, 1),
              LAMBDA expr :
                [ok |-> TRUE,
                 text |-> eval_expression(expr.value, message, client, vs)]))

InitEquiv ==
    /\ RuntimeIdle
    /\ TemplateIdle
    /\ h_pc = "call"
    /\ h_in \in [chain : EquivChains, message : {None, Some(<<"a">>)},
                 vars : {[v \in {<<"x">>} |-> t] : t \in Texts({"a", "b"}, MaxVal)}]
    /\ h_out = << >>

CallBothForms ==
    /\ h_pc = "call"
    /\ h_out' = [bare |-> eval_source(h_in.chain, h_in.message, Some(<<"1">>), h_in.vars),
                 in_string |-> eval_source(quoted(h_in.chain), h_in.message,
                                           Some(<<"1">>), h_in.vars)]
    /\ h_pc' = "done"
    /\ UNCHANGED h_in
    /\ UNCHANGED runtime_vars
    /\ UNCHANGED template_vars

NextEquiv == CallBothForms

SpecEquiv == InitEquiv /\ [][NextEquiv]_vars

(***************************************************************************)
(* main() on scripts that declare one server and two servers:              *)
(*                                                                         *)
(*   server tcp ":9" { on connect { send("hi") } }                         *)
(*   server tcp ":8" { on message { log($message) } }                      *)
(*                                                                         *)
(* and the script with one server given to Spec.                           *)
(***************************************************************************)
TwoServerScript ==
    << ServerS(<<"t", "c", "p">>, <<":", "9">>,
               << OnS("connect", << SendS(StringE(<<"h", "i">>)) >>) >>),
       ServerS(<<"t", "c", "p">>, <<":", "8">>,
               << OnS("message", << LogS(VariableE(message_name)) >>) >>) >>

ServerSources ==
    { [lex |-> "Ok", parse |-> "Ok", ast |-> TwoServerScript],
      [lex |-> "Ok", parse |-> "Ok", ast |-> EchoScript] }

InitServers ==
    /\ main_pc = "lex"
    /\ source \in ServerSources
    /\ servers = << >>
    /\ conns = << >>
    /\ faults = 0
    /\ reads = 0
    /\ TemplateIdle
    /\ CallIdle

SpecServers == InitServers /\ [][Next]_vars

(***************************************************************************)
(* Two runs of eval_expression that differ in the value of a variable the  *)
(* expression does not name.  The expressions name the message and the     *)
(* variable n; the variable s is bound in both runs, to low in one and to  *)
(* high in the other.  The client message is made of up to MaxChunks       *)
(* pieces of marker syntax, so that {{$s}} is one of the messages, and n   *)
(* can hold a marker as well.                                              *)
(***************************************************************************)
MessagePieces == { <<"{", "{">>, <<"}", "}">>, <<"$", "s">>, <<"a">> }

RECURSIVE concat(_)
concat(pieces) == IF pieces = << >> THEN << >> ELSE Head(pieces) \o concat(Tail(pieces))

PiecedMessages == {concat(p) : p \in Texts(MessagePieces, MaxChunks)}

secret_name == <<"s">>

SinglePassExprs ==
    { StringE(marker_of(message_name)),
      StringE(<<"a">> \o marker_of(<<"n">>)),
      StringE(marker_of(message_name) \o marker_of(<<"n">>)),
      StringE(<<"{", "{">> \o marker_of(message_name) \o <<"}", "}">>),
      VariableE(message_name),
      MethodCallE(VariableE(message_name), Method.trim, None) }

SinglePassValues == { <<"$", "s", "}", "}">>, marker_of(secret_name), <<"b">> }

SecretPairs ==
    { [low |-> <<"x">>, high |-> <<"y">>],
      [low |-> << >>, high |-> marker_of(<<"n">>)] }

with_secret(n_value, secret) ==
    [v \in {<<"n">>, secret_name} |-> IF v = secret_name THEN secret ELSE n_value]

InitSinglePass ==
    /\ RuntimeIdle
    /\ TemplateIdle
    /\ h_pc = "call"
    /\ h_in \in [expr : SinglePassExprs, message : {Some(m) : m \in PiecedMessages},
                 n : SinglePassValues, secret : SecretPairs]
    /\ h_out = << >>

\* runtime.rs:187-245, called once with each of the two stores
CallTwoRuns ==
    /\ h_pc = "call"
    /\ h_out' = [low |-> eval_expression(h_in.expr, h_in.message, Some(<<"1">>),
                                         with_secret(h_in.n, h_in.secret.low)),
                 high |-> eval_expression(h_in.expr, h_in.message, Some(<<"1">>),
                                          with_secret(h_in.n, h_in.secret.high))]
    /\ h_pc' = "done"
    /\ UNCHANGED h_in
    /\ UNCHANGED runtime_vars
    /\ UNCHANGED template_vars

NextSinglePass == CallTwoRuns

SpecSinglePass == InitSinglePass /\ [][NextSinglePass]_vars

(***************************************************************************)
(* main() on a script with two handlers for message and a handler for an   *)
(* event that never occurs:                                                *)
(*                                                                         *)
(*   server tcp ":9" {                                                     *)
(*     on connect { log("c") }                                             *)
(*     on message { send($message) }                                       *)
(*     on message { log("2") }                                             *)
(*     on disconnect { log("bye") }                                        *)
(*     on bogus { send("x") }                                              *)
(*   }                                                                     *)
(***************************************************************************)
DispatchScript ==
    << ServerS(<<"t", "c", "p">>, <<":", "9">>,
               << OnS("connect", << LogS(StringE(<<"c">>)) >>),
                  OnS("message", << SendS(VariableE(message_name)) >>),
                  OnS("message", << LogS(StringE(<<"2">>)) >>),
                  OnS("disconnect", << LogS(StringE(<<"b", "y", "e">>)) >>),
                  OnS("bogus", << SendS(StringE(<<"x">>)) >>) >>) >>

InitDispatch ==
    /\ main_pc = "lex"
    /\ source = [lex |-> "Ok", parse |-> "Ok", ast |-> DispatchScript]
    /\ servers = << >>
    /\ conns = << >>
    /\ faults = 0
    /\ reads = 0
    /\ TemplateIdle
    /\ CallIdle

SpecDispatch == InitDispatch /\ [][Next]_vars

(***************************************************************************)
(* Claims about the runtime (C1 and C3 under SpecDispatch, else Spec).     *)
(***************************************************************************)
Conns == DOMAIN conns
Starts(conn) == {i \in 1..Len(conn.hist) : conn.hist[i].tag = "start"}
EntriesOf(conn, event) == {i \in 1..Len(conn.hist) : conn.hist[i].event = event}
SameHandler(e1, e2) == e1.event = e2.event /\ e1.h = e2.h /\ e1.k = e2.k
Rank(event) ==
    CASE event = "connect" -> 1 [] event = "message" -> 2 [] event = "disconnect" -> 3

\* the handler of e1 comes before the handler of e2 in lifecycle order
Before(e1, e2) ==
    /\ Rank(e1.event) <= Rank(e2.event)
    /\ e1.k <= e2.k
    /\ (e1.event = e2.event /\ e1.k = e2.k) => e1.h < e2.h

\* C1: within one connection the handlers fire in lifecycle order.  A
\* handler starts only when the one before it has returned, and it comes
\* after that one in the order (connect, then message, then disconnect;
\* messages by the number of the read that delivered them; handlers of one
\* event by declaration), so that all connect handlers have returned before
\* a message handler starts and all message handlers before a disconnect
\* handler starts; connect handlers precede every read; the disconnect
\* handlers belong to the last read of the connection, so that nothing
\* fires after them.
C1_LifecycleOrder ==
    \A c \in Conns :
      LET conn == conns[c]
          hist == conn.hist
      IN /\ Len(hist) > 0 => hist[1].tag = "start"
         /\ \A i \in 1..(Len(hist) - 1) :
              IF hist[i + 1].tag = "start"
              THEN hist[i].tag \in {"end", "err"} /\ Before(hist[i], hist[i + 1])
              ELSE hist[i].tag \in {"start", "stmt"} /\ SameHandler(hist[i], hist[i + 1])
         /\ \A i \in 1..Len(hist) :
              /\ hist[i].event = "connect" => hist[i].k = 0
              /\ hist[i].event = "disconnect" => hist[i].k = conn.nread
         /\ conn.pc = "Closed" => conn.cont = << >>

\* a connection that ran connect, two messages and disconnect
C1_Witness ==
    \E c \in Conns :
      LET conn == conns[c]
      IN /\ conn.pc = "Closed"
         /\ \E i \in Starts(conn) : conn.hist[i].event = "connect"
         /\ \E i, j \in Starts(conn) :
              /\ conn.hist[i].event = "message" /\ conn.hist[i].k = 1 /\ conn.hist[i].h = 3
              /\ conn.hist[j].event = "message" /\ conn.hist[j].k = 2 /\ conn.hist[j].h = 2
         /\ \E i \in Starts(conn) : conn.hist[i].event = "disconnect" /\ conn.hist[i].k = 3

\* C2: after the write of a Send failed in a handler the connection is
\* terminated, nothing more executes for it: no statement, no further
\* handler of the same event, no later event.
C2_NothingRunsAfterWriteFailure ==
    \A c \in Conns :
      \A i \in 1..Len(conns[c].hist) :
        conns[c].hist[i].tag = "err" => i = Len(conns[c].hist)

SendFailsAt(c) ==
    /\ conns[c].pc = "Writing"
    /\ faults' = faults + 1
    /\ conns'[c] # conns[c]

\* What trigger_event does instead: when the write of a Send fails in a
\* handler, that handler returns the error at once (no further statement
\* of it executes), and the connection is not terminated: every remaining handler of the same event is started, in
\* order, and the task then goes on to its next socket operation (the next
\* read unless the event was disconnect).
WriteFailureEndsHandlerOnly ==
    [][\A c \in Conns :
         SendFailsAt(c) =>
           LET old == conns[c]
               new == conns'[c]
               n == Len(old.hist)
               later == {i \in (n + 2)..Len(new.hist) : new.hist[i].tag = "start"}
               rest == matching(events_of(old), old.event, old.next)
           IN /\ Len(new.hist) > n
              /\ SubSeq(new.hist, 1, n) = old.hist
              /\ new.hist[n + 1] = entry("err", old, old.next - 1)
              /\ \A i \in (n + 2)..Len(new.hist) :
                   /\ new.hist[i].event = old.event
                   /\ new.hist[i].k = old.nread
                   /\ new.hist[i].h \in rest
              /\ new.pc # "Writing" => {new.hist[i].h : i \in later} = rest
              /\ new.pc = "Closed" => old.event = "disconnect"
              /\ new.nread = old.nread
       ]_vars

\* a write failed in a message handler; a later handler of that message
\* ran, and later still the disconnect handler
WriteFailureThenDisconnect ==
    \E c \in Conns :
      LET hist == conns[c].hist
      IN \E i, j, l \in 1..Len(hist) :
           /\ i < j /\ j < l
           /\ hist[i].tag = "err" /\ hist[i].event = "message"
           /\ hist[j].tag = "start" /\ hist[j].event = "message"
           /\ hist[j].k = hist[i].k /\ hist[j].h > hist[i].h
           /\ hist[l].tag = "start" /\ hist[l].event = "disconnect"

\* C3: a read that returns an error closes the connection at once: no
\* handler fires for that read, and no disconnect handler fires at all;
\* disconnect handlers fire only on an empty read, each matching handler
\* once.
C3_ReadErrorClosesWithoutDisconnect ==
    \A c \in Conns :
      LET conn == conns[c]
          hist == conn.hist
          disc == {i \in 1..Len(hist) :
                     hist[i].tag = "start" /\ hist[i].event = "disconnect"}
          due == matching(events_of(conn), "disconnect", 1)
      IN /\ conn.last_read = "error" =>
              /\ conn.pc = "Closed"
              /\ disc = {}
              /\ \A i \in 1..Len(hist) : hist[i].k < conn.nread
         /\ disc # {} => conn.last_read = "eof"
         /\ \A i \in disc : hist[i].h \in due
         /\ \A i, j \in disc : i # j => hist[i].h # hist[j].h
         /\ (conn.last_read = "eof" /\ conn.pc = "Closed") =>
              {hist[i].h : i \in disc} = due

\* one connection closed by a read error after a message, another closed
\* by an empty read with its disconnect handler fired
C3_Witness ==
    \E c, d \in Conns :
      /\ conns[c].last_read = "error"
      /\ conns[c].pc = "Closed"
      /\ EntriesOf(conns[c], "message") # {}
      /\ conns[d].last_read = "eof"
      /\ conns[d].pc = "Closed"
      /\ EntriesOf(conns[d], "disconnect") # {}

RECURSIVE replay(_)
replay(sets) ==
    IF sets = << >> THEN EmptyStore
    ELSE LET last == sets[Len(sets)]
         IN store_insert(replay(SubSeq(sets, 1, Len(sets) - 1)), last[1], last[2])

\* C4: a connection starts with an empty store, and at every moment its
\* store holds exactly the assignments of its own SetVar statements, in
\* the order it executed them, whatever the other connections did.
C4_StoreIsPrivate ==
    \A c \in Conns :
      /\ conns[c].vars = replay(conns[c].sets)
      /\ conns[c].pc = "Spawned" => conns[c].vars = EmptyStore

\* two connections that both assigned n, to different texts
C4_Witness ==
    \E c, d \in Conns :
      /\ conns[c].sets # << >>
      /\ conns[d].sets # << >>
      /\ <<"n">> \in DOMAIN conns[c].vars
      /\ <<"n">> \in DOMAIN conns[d].vars
      /\ conns[c].vars[<<"n">>] # conns[d].vars[<<"n">>]

\* the body the claim says an If runs: the first whose condition is truthy
\* among then and each else-if in order, else the final else, else none
RECURSIVE claimed_else(_, _, _, _, _, _)
claimed_else(else_ifs, i, else_body, message, client, vs) ==
    IF i > Len(else_ifs) THEN else_body
    ELSE IF is_true(eval_expression(else_ifs[i][1], message, client, vs))
         THEN Some(else_ifs[i][2])
    ELSE claimed_else(else_ifs, i + 1, else_body, message, client, vs)

claimed_branch(stmt, message, client, vs) ==
    IF is_true(eval_expression(stmt.condition, message, client, vs))
    THEN Some(stmt.then_body)
    ELSE claimed_else(stmt.else_ifs, 1, stmt.else_body, message, client, vs)

\* C5: every If that a connection executed ran exactly the body of the
\* first branch whose condition was truthy among then, each else-if in
\* order and the final else, or no body when there was none.
C5_IfRunsFirstTruthyBranch ==
    \A c \in Conns :
      \A i \in 1..Len(conns[c].ifs) :
        LET e == conns[c].ifs[i]
        IN e.branch = claimed_branch(e.stmt, e.message, Some(conns[c].client), e.vars)

\* C6: a server task exists (is binding, listening or has accepted a
\* connection) only if lex and parse both returned Ok for the script.
C6_NoServerUnlessCompiled ==
    (servers # << >> \/ conns # << >> \/ main_pc \in {"interpret", "await"})
       => (source.lex = "Ok" /\ source.parse = "Ok")

\* main returned on a parse error and started nothing
C6_Witness ==
    /\ main_pc = "exit"
    /\ source.lex = "Ok"
    /\ source.parse = "Err"
    /\ servers = << >>
    /\ conns = << >>

\* C7: a read of bytes that are not valid UTF-8 changes nothing of the
\* connection but its read count: no handler fires, the store is unchanged
\* and the task is reading again; the valid read after it fires the first
\* message handler with the trimmed text of that read.
C7_InvalidUtf8Skipped ==
    [][\A c \in Conns :
         LET old == conns[c]
             new == conns'[c]
         IN /\ (new.nread = old.nread + 1 /\ new.last_read = "invalid") =>
                 /\ new = [old EXCEPT !.nread = old.nread + 1, !.last_read = "invalid"]
                 /\ new.pc = "Receiving"
            /\ (old.last_read = "invalid" /\ new.last_read = "chunk") =>
                 LET todo == matching(events_of(old), "message", 1)
                     first == CHOOSE j \in todo : \A i \in todo : j <= i
                 IN /\ new.message \in {Some(trim_end_matches_crlf(msg)) : msg \in ReadChunks}
                    /\ new.nread = old.nread + 1
                    /\ todo # {} =>
                         /\ Len(new.hist) > Len(old.hist)
                         /\ new.hist[Len(old.hist) + 1] =
                              [tag |-> "start", event |-> "message",
                               h |-> first, k |-> new.nread]
       ]_vars

\* the first read was not valid UTF-8, the second fired the message handlers
C7_Witness ==
    \E c \in Conns :
      LET conn == conns[c]
      IN /\ conn.nread = 2
         /\ conn.last_read = "chunk"
         /\ \A i \in 1..Len(conn.hist) : conn.hist[i].k # 1
         /\ \E i \in Starts(conn) : conn.hist[i].event = "message" /\ conn.hist[i].k = 2
         /\ conn.pc = "Receiving"
         /\ <<"n">> \in DOMAIN conn.vars

\* C8: a step in which a connection fails (its read returns an error, or
\* the write of a Send fails) changes that connection only: every other
\* connection and every listener is as before.
C8_FailuresIsolated ==
    [][(faults' = faults + 1 /\ conns' # conns) =>
          /\ servers' = servers
          /\ Len(conns') = Len(conns)
          /\ \E c \in Conns : \A d \in Conns \ {c} : conns'[d] = conns[d]
       ]_vars

\* the first connection was closed by a read error; the listener accepted
\* the second one after that, and the second ran to its disconnect handler
C8_Witness ==
    /\ Len(conns) = 2
    /\ conns[1].last_read = "error"
    /\ conns[1].pc = "Closed"
    /\ conns[2].born = 1
    /\ conns[2].pc = "Closed"
    /\ EntriesOf(conns[2], "message") # {}
    /\ EntriesOf(conns[2], "disconnect") # {}
    /\ \A s \in DOMAIN servers : servers[s].state = "Listening"

(***************************************************************************)
(* Claims about eval_template (checked under SpecTemplate).                *)
(***************************************************************************)
HasMarker(s) == find2(s, "{", "{") # 0
\* the first {{ of s has no }} after it
FirstMarkerUnterminated(s) ==
    /\ HasMarker(s)
    /\ find2(suffix(s, find2(s, "{", "{")), "}", "}") = 0

\* C9: for a string whose first {{ has no matching }} after it, so that no
\* marker was substituted before it, eval_template returns the text before
\* the marker followed by the remainder from {{ onward exactly once: the
\* output equals the input.
C9_UnterminatedMarkerVerbatim ==
    (t_pc = "done" /\ FirstMarkerUnterminated(t_s)) => t_result = t_s

\* what the code returns there: the text before the marker and the
\* remainder, and then both a second time
C9_CodeDuplicatesRemainder ==
    (t_pc = "done" /\ FirstMarkerUnterminated(t_s)) => t_result = t_s \o t_s

\* C10: for every string that contains no {{ marker, eval_template returns
\* the string unchanged, for every message, client and variable store.
C10_NoMarkerUnchanged ==
    (t_pc = "done" /\ ~HasMarker(t_s)) => t_result = t_s

C10_Witness ==
    /\ t_pc = "done"
    /\ ~HasMarker(t_s)
    /\ Len(t_s) = MaxLen
    /\ \E i \in 1..Len(t_s) : t_s[i] = "$"
    /\ \E i \in 1..Len(t_s) : t_s[i] = "{"
    /\ find2(t_s, "}", "}") # 0
    /\ t_vars # EmptyStore
    /\ t_message # None
    /\ t_result = t_s

(***************************************************************************)
(* Properties of eval_expression, under SpecEval.                          *)
(***************************************************************************)
EvalDone == h_pc = "done"
option_text(o) == IF o = None THEN << >> ELSE o[1]

\* what the name v resolves to in the context of the call
resolved(v) ==
    IF v = message_name THEN option_text(h_in.message)
    ELSE IF v = client_name THEN option_text(h_in.client)
    ELSE IF v \in DOMAIN h_in.vars THEN h_in.vars[v]
    ELSE <<"$">> \o v

\* C11: the variables message and client evaluate to the message and the
\* client of the context (the empty text when absent), also when the store
\* binds a variable of that name; any other name evaluates to its bound
\* value, or to the text $name when it is unbound.  The same holds of a
\* name written as a marker in a string.
C11_VariableResolution ==
    \A v \in EvalNames :
      (EvalDone /\ h_in.expr \in {VariableE(v), StringE(marker_of(v))})
        => h_out = resolved(v)

\* the store binds message to another text than the message of the context
C11_Witness ==
    /\ EvalDone
    /\ h_in.expr = VariableE(message_name)
    /\ message_name \in DOMAIN h_in.vars
    /\ h_in.message # None
    /\ h_in.vars[message_name] # h_in.message[1]
    /\ h_out = h_in.message[1]

\* the argument shapes of the built-in library
NoArgMethods ==
    { Method.reverse, Method.upper, Method.lower, Method.length, Method.len, Method.capitalize, Method.cap,
      Method.trim, Method.rtrim, Method.ltrim, Method.is_empty, Method.isEmpty, Method.typeof, Method.type_of }
TextArgMethods ==
    { Method.contains, Method.starts_with, Method.startsWith, Method.ends_with, Method.endsWith,
      Method.find, Method.remove, Method.count }
PairArgMethods == {Method.repeat_sep, Method.repeatSep, Method.replace}
KnownMethods == NoArgMethods \cup TextArgMethods \cup PairArgMethods \cup {Method.repeat}

IsCall == h_in.expr.kind = "MethodCall"
call_base == eval_expression(h_in.expr.object, h_in.message, h_in.client, h_in.vars)
call_method == h_in.expr.method
call_arg == h_in.expr.arg

wrong_shape(method, arg) ==
    \/ method \in NoArgMethods /\ arg # None
    \/ method \in TextArgMethods /\ (arg = None \/ arg[1].kind \in {"Number", "Tuple"})
    \/ method = Method.repeat /\ (arg = None \/ arg[1].kind # "Number")
    \/ method \in PairArgMethods
         /\ (arg = None \/ arg[1].kind # "Tuple" \/ Len(arg[1].items) # 2)

\* C12: a call of an unknown method, or of a known method with an argument
\* of the wrong shape (missing, too many, of the wrong kind), evaluates to
\* the unmodified base text.
C12_WrongCallReturnsBase ==
    (EvalDone /\ IsCall /\ call_base # Panic
       /\ (call_method \notin KnownMethods \/ wrong_shape(call_method, call_arg)))
      => h_out = call_base

no_text_literal(arg) == arg = None \/ arg[1].kind # "String" \/ arg[1].s = << >>
no_pair(arg) == arg = None \/ arg[1].kind # "Tuple" \/ Len(arg[1].items) # 2

\* C12, amended: a call of an unknown method evaluates to the unmodified
\* base text; so does contains, starts_with, ends_with, find, remove or
\* count called without a non-empty string literal as its one argument, and
\* repeat_sep or replace called without two arguments.  repeat called
\* without a number repeats the base text twice, and a method that takes
\* no argument ignores an argument it is given.
C12_FailSoft ==
    (EvalDone /\ IsCall /\ call_base # Panic) =>
      /\ call_method \notin KnownMethods => h_out = call_base
      /\ (call_method \in TextArgMethods /\ no_text_literal(call_arg))
           => h_out = call_base
      /\ (call_method \in PairArgMethods /\ no_pair(call_arg)) => h_out = call_base
      /\ (call_method = Method.repeat /\ (call_arg = None \/ call_arg[1].kind # "Number"))
           => h_out = call_base \o call_base
      /\ call_method \in NoArgMethods
           => h_out = eval_expression(MethodCallE(h_in.expr.object, call_method, None),
                                      h_in.message, h_in.client, h_in.vars)

\* replace called with three arguments returned the base text
C12_Witness ==
    /\ EvalDone
    /\ IsCall
    /\ call_method = Method.replace
    /\ call_arg # None
    /\ call_arg[1].kind = "Tuple"
    /\ Len(call_arg[1].items) = 3
    /\ call_base = <<"a", "b", "a">>
    /\ h_out = <<"a", "b", "a">>

\* C13: evaluation is total, eval_expression returns a text for every
\* expression and every context.
C13_EvaluationTotal == EvalDone => h_out # Panic


(***************************************************************************)
(* Properties of lex, under SpecLex.                                       *)
(***************************************************************************)
LexDone == h_pc = "done"

\* the 1-based line and column of the character at index p of src
line_of(src, p) == 1 + Cardinality({k \in 1..(p - 1) : src[k] = "\n"})
column_of(src, p) ==
    LET breaks == {k \in 1..(p - 1) : src[k] = "\n"}
    IN IF breaks = {} THEN p ELSE p - (CHOOSE k \in breaks : \A j \in breaks : j <= k)

\* C14: every LexError carries the 1-based line and column of the
\* character it is about; an unexpected character that is the k-th
\* character of line l is reported with line l and column k.
C14_ErrorPosition ==
    (LexDone /\ ~h_out.ok) =>
      /\ h_out.line = line_of(h_in, h_out.at)
      /\ h_out.column = column_of(h_in, h_out.at)

\* the source opens a string whose first quote or newline after the
\* opening quote is a newline, or that has neither
OpensUnterminatedString ==
    /\ h_in # << >>
    /\ Head(h_in) = "\""
    /\ LET stop == scan_to(h_in, 2, {"\"", "\n"})
       IN stop > Len(h_in) \/ h_in[stop] = "\n"

\* C15: when a newline or the end of the source comes after an opening
\* quote and before the closing quote, lex returns UnterminatedString.
C15_UnterminatedString ==
    (LexDone /\ OpensUnterminatedString) =>
      (~h_out.ok /\ h_out.error = "UnterminatedString")

\* the characters that are whitespace, punctuation, an operator, '$', a
\* letter or a digit
Lexical(c) ==
    \/ is_whitespace(c)
    \/ c \in PunctuationChars
    \/ c \in {"=", "&", "|", "!", ">", "<", "/"}
    \/ c = "$"
    \/ is_alphabetic(c)
    \/ is_ascii_digit(c)

\* the source has no string and no comment
Plain == \A k \in 1..Len(h_in) : h_in[k] \notin {"\"", "/"}

\* C16: outside strings and comments, a character that is not whitespace,
\* punctuation, an operator, '$', a letter or a digit makes lex return
\* UnexpectedCharacter.
C16_OtherCharacterRejected ==
    (LexDone /\ Plain /\ \E k \in 1..Len(h_in) : ~Lexical(h_in[k]))
      => (~h_out.ok /\ h_out.error = "UnexpectedCharacter")

semicolons_blank(src) == [k \in 1..Len(src) |-> IF src[k] = ";" THEN " " ELSE src[k]]

\* C16, amended: outside strings and comments, a character that is not
\* whitespace, punctuation, an operator, '$', a letter, a digit or ';' makes
\* lex return UnexpectedCharacter; ';' is skipped as a blank is.
C16_OtherCharacterRejectedButSemicolon ==
    (LexDone /\ Plain) =>
      /\ (\E k \in 1..Len(h_in) : ~Lexical(h_in[k]) /\ h_in[k] # ";")
           => (~h_out.ok /\ h_out.error = "UnexpectedCharacter")
      /\ h_out.ok = lex(semicolons_blank(h_in)).ok
      /\ h_out.ok => h_out.tokens = lex(semicolons_blank(h_in)).tokens

\* a source with '#' after a semicolon was rejected at the '#'
C16_Witness ==
    /\ LexDone
    /\ h_in = <<"a", ";", "#", "a">>
    /\ ~h_out.ok
    /\ h_out.error = "UnexpectedCharacter"
    /\ h_out.at = 3

(***************************************************************************)
(* Properties of parse and parse_expression, under SpecParse.              *)
(***************************************************************************)
ParseDone == h_pc = "done" /\ h_in.kind = "source"
ExprDone == h_pc = "done" /\ h_in.kind = "expression"

count_tokens(tokens, type) ==
    Cardinality({k \in 1..Len(tokens) : tokens[k].type = type})

\* more braces or parentheses are opened than closed
unclosed(tokens) ==
    \/ count_tokens(tokens, "LBrace") > count_tokens(tokens, "RBrace")
    \/ count_tokens(tokens, "LParen") > count_tokens(tokens, "RParen")

\* C17: when the source ends inside a construct that is not closed, parse
\* returns UnexpectedEof on the tokens of lex.
C17_UnfinishedConstructIsUnexpectedEof ==
    (ParseDone /\ lex(h_in.src).ok /\ unclosed(lex(h_in.src).tokens)) =>
      (~h_out.ok /\ h_out.error = "UnexpectedEof")

\* What parse does return on such sources: UnexpectedToken, or the AST
\* when all that is missing is the '}' of the last server.
UnfinishedConstructOutcome ==
    (ParseDone /\ lex(h_in.src).ok /\ unclosed(lex(h_in.src).tokens)) =>
      \/ ~h_out.ok /\ h_out.error = "UnexpectedToken"
      \/ /\ h_out.ok
         /\ LET tokens == lex(h_in.src).tokens
            IN /\ count_tokens(tokens, "LBrace") = count_tokens(tokens, "RBrace") + 1
               /\ count_tokens(tokens, "LParen") = count_tokens(tokens, "RParen")

\* The tokens of lex end with EOF (lexer.rs:321) and the parser never moves
\* past it: no call returns UnexpectedEof.
UnexpectedEofNeverReturned ==
    h_pc = "done" => (h_out.ok \/ h_out.error # "UnexpectedEof")

Var(letter) == VariableE(<<letter>>)

\* the expression of these symbols was parsed to this value, up to EOF
parsed(symbols, value) ==
    h_in.tokens = expr_tokens(symbols) => h_out = POk(value, Len(symbols) + 1)

RECURSIVE level_primary(_)
level_primary(e) ==
    CASE e.kind \in {"String", "Variable", "Number"} -> TRUE
      [] e.kind = "MethodCall" -> e.arg = None /\ level_primary(e.object)
      [] OTHER -> FALSE

RECURSIVE level_unary(_)
level_unary(e) ==
    IF e.kind = "UnaryOp" THEN level_unary(e.operand) ELSE level_primary(e)

level_comparison(e) ==
    IF e.kind = "BinaryOp" THEN level_unary(e.left) /\ level_unary(e.right)
    ELSE level_unary(e)

RECURSIVE level_and(_)
level_and(e) ==
    IF e.kind = "LogicalOp" /\ e.op = "And"
    THEN level_and(e.left) /\ level_comparison(e.right)
    ELSE level_comparison(e)

RECURSIVE level_or(_)
level_or(e) ==
    IF e.kind = "LogicalOp" /\ e.op = "Or"
    THEN level_or(e.left) /\ level_and(e.right)
    ELSE level_and(e)

no_parenthesis(tokens) == \A k \in 1..Len(tokens) : tokens[k].type # "LParen"

\* C18: || binds less than &&, && less than a comparison, a comparison less
\* than !, ! less than a primary expression; a comparison has one operator:
\* the second == of a == b == c is left to the caller.
C18_Precedence ==
    ExprDone =>
      /\ parsed(<<"Ident", "Or", "Ident", "And", "Ident">>,
                LogicalOpE(Var("a"), "Or", LogicalOpE(Var("b"), "And", Var("c"))))
      /\ parsed(<<"Ident", "And", "Ident", "EqualsEquals", "Ident">>,
                LogicalOpE(Var("a"), "And", BinaryOpE(Var("b"), "Equal", Var("c"))))
      /\ parsed(<<"Not", "Ident", "EqualsEquals", "Ident">>,
                BinaryOpE(UnaryOpE("Not", Var("a")), "Equal", Var("b")))
      /\ h_in.tokens = expr_tokens(<<"Ident", "EqualsEquals", "Ident",
                                     "EqualsEquals", "Ident">>)
           => h_out = POk(BinaryOpE(Var("a"), "Equal", Var("b")), 4)
      /\ (h_out.ok /\ no_parenthesis(h_in.tokens)) => level_or(h_out.value)

\* a || b && c was parsed
C18_Witness ==
    /\ ExprDone
    /\ h_in.tokens = expr_tokens(<<"Ident", "Or", "Ident", "And", "Ident">>)
    /\ h_out.ok
    /\ h_out.value.kind = "LogicalOp"
    /\ h_out.value.op = "Or"

\* the tokens from..to are .name suffixes
RECURSIVE is_suffixes(_, _, _)
is_suffixes(tokens, from, to) ==
    \/ from > to
    \/ /\ from < to
       /\ tokens[from].type = "Dot"
       /\ tokens[from + 1].type = "Ident"
       /\ is_suffixes(tokens, from + 2, to)

\* the MethodCall nodes of the suffixes from..to around an object
RECURSIVE method_chain(_, _, _, _)
method_chain(object, tokens, from, to) ==
    IF from > to THEN object
    ELSE method_chain(MethodCallE(object, tokens[from + 1].text, None),
                      tokens, from + 2, to)

\* an identifier followed by suffixes, up to EOF
literal_chain(tokens) ==
    LET n == Len(tokens) - 1
    IN (n >= 1 /\ tokens[1].type = "Ident" /\ is_suffixes(tokens, 2, n))
         => h_out = POk(method_chain(Var(tokens[1].text[1]), tokens, 2, n), n + 1)

\* a parenthesized identifier followed by suffixes, up to EOF
parenthesized_chain(tokens) ==
    LET n == Len(tokens) - 1
    IN (/\ n >= 3
        /\ tokens[1].type = "LParen"
        /\ tokens[2].type = "Ident"
        /\ tokens[3].type = "RParen"
        /\ is_suffixes(tokens, 4, n))
         => h_out = POk(method_chain(Var(tokens[2].text[1]), tokens, 4, n), n + 1)

\* C19: a primary expression followed by n suffixes is parsed to n nested
\* MethodCall nodes around the primary, be it a literal or parenthesized.
C19_SuffixesOfPrimary ==
    ExprDone => (literal_chain(h_in.tokens) /\ parenthesized_chain(h_in.tokens))

\* The suffixes of a literal are parsed so.
SuffixesOfLiteral == ExprDone => literal_chain(h_in.tokens)

(***************************************************************************)
(* Properties of the bytes a connection task writes, under Spec.           *)
(***************************************************************************)
RECURSIVE lines(_)
lines(texts) ==
    IF texts = << >> THEN << >>
    ELSE Head(texts) \o <<"\n">> \o lines(Tail(texts))

\* the messages the connection handled, as the If of the second message
\* handler met them
handled_messages(conn) == [k \in 1..Len(conn.ifs) |-> conn.ifs[k].message[1]]

upper_texts(texts) == [k \in 1..Len(texts) |-> to_uppercase(texts[k])]

no_write_failed(conn) == \A k \in 1..Len(conn.hist) : conn.hist[k].tag # "err"

BindDone == h_pc = "done"

loopback == <<"1", "2", "7", ".", "0", ".", "0", ".", "1">>

\* the least index of a colon in port, 0 when there is none
colon_at(port) ==
    LET at == {k \in 1..Len(port) : port[k] = ":"}
    IN IF at = {} THEN 0 ELSE CHOOSE k \in at : \A j \in at : k <= j

\* the port string has a host before its colon
names_host(port) == colon_at(port) > 1

\* C21: the bind address is the port string with the loopback host put
\* before it only if the string has no host: :9 and 9 both give
\* 127.0.0.1:9, and a port string that names a host is bound as it is.
C21_BindAddress ==
    BindDone =>
      /\ (colon_at(h_in) = 1 /\ all_digits(Tail(h_in)) /\ Len(h_in) > 1)
           => h_out = loopback \o h_in
      /\ (h_in # << >> /\ all_digits(h_in)) => h_out = loopback \o <<":">> \o h_in
      /\ names_host(h_in) => h_out = h_in

\* What the code does: the loopback host is put before every port string.
BindAddressAlwaysPrefixed ==
    BindDone =>
      /\ SubSeq(h_out, 1, Len(loopback)) = loopback
      /\ h_out \in {loopback \o h_in, loopback \o <<":">> \o h_in}
      /\ (h_in # << >> /\ all_digits(h_in)) => h_out = loopback \o <<":">> \o h_in
      /\ colon_at(h_in) = 1 => h_out = loopback \o h_in


(***************************************************************************)
(* Properties of execute_statements, under SpecExec.                       *)
(***************************************************************************)
falsy_texts == { <<"f", "a", "l", "s", "e">>, <<"0">>, << >> }

took_then(taken) == taken.branch = Some(taken.stmt.then_body)

took_else(taken) ==
    /\ taken.branch = taken.stmt.else_body
    /\ taken.branch # Some(taken.stmt.then_body)

\* C22: an If runs its then body exactly when the text of its condition is
\* not "false", not "0" and not empty; otherwise it runs its else body, if
\* it has one.  In particular "true", any other non-empty text and the
\* "$n" that an unbound variable n evaluates to all select the then body.
C22_Truthiness ==
    \A k \in 1..Len(h_out.ifs) :
        LET taken == h_out.ifs[k]
        IN /\ took_then(taken) <=> taken.condition_result \notin falsy_texts
           /\ ~took_then(taken) => took_else(taken)
           /\ taken.condition_result = <<"t", "r", "u", "e">> => took_then(taken)

\* an unbound variable was the condition and the then body ran; a "false"
\* taken from the store selected the else body
C22_Witness ==
    /\ h_pc = "done"
    /\ Len(h_out.ifs) = 2
    /\ h_out.ifs[1].condition_result = <<"$", "q">>
    /\ took_then(h_out.ifs[1])
    /\ h_out.ifs[2].condition_result = <<"f", "a", "l", "s", "e">>
    /\ took_else(h_out.ifs[2])


(***************************************************************************)
(* Properties of a comparison, under SpecCompare.                          *)
(***************************************************************************)
left_text == h_in.expr.left.s
right_text == h_in.expr.right.s

both_numbers == parse_f64_is_ok(left_text) /\ parse_f64_is_ok(right_text)

numeric_decision ==
    holds(h_in.expr.op, f64_cmp(parse_f64(left_text)[1], parse_f64(right_text)[1]))

lexicographic_decision == holds(h_in.expr.op, str_cmp(left_text, right_text))

compared(l, op, r) ==
    /\ left_text = l
    /\ h_in.expr.op = op
    /\ right_text = r

\* C23: a comparison of two texts that both parse as numbers gives the
\* text of the numeric decision; when either text does not parse as a
\* number it gives the text of the lexicographic decision on the two texts;
\* the result is "true" or "false".  10 > 9 is true, abc > abd is false and
\* 10 > 9a is false.
C23_Comparison ==
    EvalDone =>
        /\ h_out \in {bool_to_string(TRUE), bool_to_string(FALSE)}
        /\ both_numbers => h_out = bool_to_string(numeric_decision)
        /\ ~both_numbers => h_out = bool_to_string(lexicographic_decision)
        /\ compared(<<"1", "0">>, "GreaterThan", <<"9">>) => h_out = bool_to_string(TRUE)
        /\ compared(<<"a", "b", "c">>, "GreaterThan", <<"a", "b", "d">>)
              => h_out = bool_to_string(FALSE)
        /\ compared(<<"1", "0">>, "GreaterThan", <<"9", "a">>)
              => h_out = bool_to_string(FALSE)
        /\ compared(<<"1", ".", "0">>, "Equal", <<"1">>) => h_out = bool_to_string(TRUE)
        /\ compared(<<"1", "0", "0">>, "LessThan", <<"9", "9">>)
              => h_out = bool_to_string(FALSE)

\* 10 > 9 was decided as numbers: as texts 10 is less than 9
C23_Witness ==
    /\ EvalDone
    /\ compared(<<"1", "0">>, "GreaterThan", <<"9">>)
    /\ both_numbers
    /\ ~lexicographic_decision
    /\ h_out = bool_to_string(TRUE)


(***************************************************************************)
(* Properties of a method chain in a string literal, under SpecEquiv.      *)
(***************************************************************************)
EquivDone == h_pc = "done"

both_evaluated == h_out.bare.ok /\ h_out.in_string.ok

\* C24: with x bound, the string literal "$x.m(args)" evaluates to the
\* text that the expression $x.m(args) evaluates to, whether the arguments
\* are none, a number, a string or several.
C24_StringEqualsBare ==
    EquivDone => both_evaluated /\ h_out.in_string.text = h_out.bare.text

\* What the code does: the two forms agree when the chain has no argument
\* or a number as its argument; with a string argument or several
\* arguments the string literal evaluates to the text of x.

StringFormDropsArguments ==
    EquivDone =>
        /\ both_evaluated
        /\ h_in.chain \in NumericChains => h_out.in_string.text = h_out.bare.text
        /\ h_in.chain \in StringChains \cup SeveralChains =>
              h_out.in_string.text = h_in.vars[<<"x">>]


(***************************************************************************)
(* Properties of trigger_event, under SpecDispatch.                        *)
(***************************************************************************)
\* server tcp ":9" { on bogus { log("x") } }
BogusSource ==
    <<"s", "e", "r", "v", "e", "r", " ", "t", "c", "p", " ", "\"", ":",
      "9", "\"", " ", "{", " ", "o", "n", " ", "b", "o", "g", "u", "s",
      " ", "{", " ", "l", "o", "g", "(", "\"", "x", "\"", ")", " ", "}",
      " ", "}">>

\* lex and parse accept the script and return its On block
bogus_parsed == Try(lex(BogusSource), LAMBDA lexed : parse(lexed.tokens))

bogus_accepted ==
    /\ bogus_parsed.ok
    /\ bogus_parsed.value
         = << ServerS(<<"t", "c", "p">>, <<":", "9">>,
                      << OnS(<<"b", "o", "g", "u", "s">>,
                             << LogS(StringE(<<"x">>)) >>) >>) >>

LifecycleEvents == {"connect", "message", "disconnect"}

\* the handlers that an occurrence of the event started, in the order in
\* which they started; the occurrence is the k-th read, 0 for connect
started_by(conn, event, k) ==
    SelectSeq(conn.hist,
              LAMBDA x : x.tag = "start" /\ x.event = event /\ x.k = k)

same_occurrence(x, y) == x.event = y.event /\ x.k = y.k

\* no On block from the from-th to the to-th of the server is declared for
\* the event
none_declared(events, event, from, to) ==
    \A j \in from..to : events[j].event # event

\* trigger_event has returned for every occurrence but the last, which is
\* in progress, or may have been when the task was cancelled
in_progress(conn) == conn.pc \notin {"Receiving", "Closed"}

\* C25: an occurrence of an event on a connection runs the On blocks
\* declared for that event and no other, each once, in the order of their
\* declaration, and when trigger_event has returned it has run them all;
\* the occurrences are the connect of the connection, each read that
\* delivered text and the read that returned 0.  An On block declared for
\* another name (bogus) is accepted by the parser and never runs.  In the
\* order of the starts: a handler started is declared for the event of
\* its occurrence; no block for that event is declared between it and the
\* handler started before it in the occurrence (or the head of the server,
\* for the first), nor after it when it is the last of an occurrence that
\* has returned.
C25_MatchingHandlersOnce ==
    /\ bogus_accepted
    /\ \A c \in Conns :
         LET conn == conns[c]
             events == events_of(conn)
             starts == SelectSeq(conn.hist, LAMBDA x : x.tag = "start")
         IN /\ \A n \in 1..Len(starts) :
                 /\ starts[n].event \in LifecycleEvents
                 /\ events[starts[n].h].event = starts[n].event
                 /\ IF n > 1 /\ same_occurrence(starts[n - 1], starts[n])
                    THEN /\ starts[n - 1].h < starts[n].h
                         /\ none_declared(events, starts[n].event,
                                          starts[n - 1].h + 1, starts[n].h - 1)
                    ELSE none_declared(events, starts[n].event, 1, starts[n].h - 1)
                 /\ IF n < Len(starts)
                    THEN \/ same_occurrence(starts[n], starts[n + 1])
                         \/ /\ none_declared(events, starts[n].event,
                                             starts[n].h + 1, Len(events))
                            /\ \A m \in (n + 1)..Len(starts) :
                                 ~same_occurrence(starts[n], starts[m])
                    ELSE in_progress(conn)
                           \/ none_declared(events, starts[n].event,
                                            starts[n].h + 1, Len(events))
            /\ conn.pc \notin {"Spawned", "Cancelled"}
                  => \E n \in 1..Len(starts) : starts[n].event = "connect"
            /\ conn.last_read = "chunk"
                  => \E n \in 1..Len(starts) :
                       starts[n].event = "message" /\ starts[n].k = conn.nread
            /\ conn.last_read = "eof"
                  => \E n \in 1..Len(starts) :
                       starts[n].event = "disconnect" /\ starts[n].k = conn.nread

\* the write of the first message handler failed; the message still ran
\* the two On blocks declared for message, the second and the third of the
\* server, in that order
C25_Witness ==
    \E c \in Conns :
      /\ conns[c].pc = "Receiving"
      /\ conns[c].last_read = "chunk"
      /\ \E i \in 1..Len(conns[c].hist) : conns[c].hist[i].tag = "err"
      /\ Len(started_by(conns[c], "message", conns[c].nread)) = 2
      /\ started_by(conns[c], "message", conns[c].nread)[1].h = 2
      /\ started_by(conns[c], "message", conns[c].nread)[2].h = 3


(***************************************************************************)
(* Properties of the guards of the variable store, under SpecExec.         *)
(***************************************************************************)
takes_read_guard == h_out.cont # << >> /\ Head(h_out.cont).kind \in {"SetVar", "If", "Log", "Send"}

\* C26: the task that executes statements never holds the read guard and
\* the write guard of its store together; it holds no guard while it
\* awaits the write to the socket, the nested call on a branch or the
\* write guard, nor between two statements or when it returns; hence the
\* read guard is free to take whenever a statement asks for it, and the
\* write guard whenever a SetVar asks for it.
C26_GuardsNeverOverlap ==
    /\ h_out.held \in {{}, {"read"}, {"write"}}
    /\ h_pc \in {"socket", "branch", "write_wait", "stmt", "done", "err"} => h_out.held = {}
    /\ h_pc = "reading" => h_out.held = {"read"}
    /\ h_pc = "writing" => h_out.held = {"write"}
    /\ (h_pc = "stmt" /\ takes_read_guard) => can_read(h_out.held)
    /\ h_pc = "write_wait" => can_write(h_out.held)

\* after a SetVar that took and dropped both guards in turn, a Send awaits
\* the socket holding none
C26_Witness ==
    /\ h_pc = "socket"
    /\ h_out.held = {}
    /\ Len(h_out.sets) = 1


(***************************************************************************)
(* Properties of the store across the steps of execute_statements, under   *)
(* SpecExec.                                                               *)
(***************************************************************************)
\* the store with name bound to value and every other binding as in vs
only_binding_changed(vs, name, value, after) ==
    /\ DOMAIN after = DOMAIN vs \cup {name}
    /\ after[name] = value
    /\ \A v \in DOMAIN vs : v # name => after[v] = vs[v]

\* C27: the only step that changes the store is the insert of a SetVar.
\* Taking a guard, evaluating the expression of a Log, a Send, a SetVar or
\* the condition of an If, entering a branch and writing to the socket
\* leave it as it is.  The insert binds the name of the SetVar to the text
\* of its expression evaluated in the store as it is before the insert (no
\* step changed it since the read guard was taken) and leaves every other
\* binding as it is.
C27_FrameEffects ==
    [][ IF h_pc = "writing"
        THEN only_binding_changed(
               h_out.vars, Head(h_out.cont).name,
               eval_expression(Head(h_out.cont).value, h_out.message,
                               Some(h_out.client), h_out.vars),
               h_out'.vars)
        ELSE h_out'.vars = h_out.vars ]_vars

\* set n = $message with n bound to b, q bound to c and the message a: n is
\* overwritten with a and q is still c
C27_Witness ==
    /\ h_pc = "done"
    /\ Len(h_out.sets) = 1
    /\ h_out.sets[1].stmt = SetVarS(<<"n">>, VariableE(message_name))
    /\ h_out.sets[1].before = [v \in {<<"n">>, <<"q">>} |-> IF v = <<"n">> THEN <<"b">> ELSE <<"c">>]
    /\ h_out.sets[1].after = [v \in {<<"n">>, <<"q">>} |-> IF v = <<"n">> THEN <<"a">> ELSE <<"c">>]
    /\ h_out.vars = h_out.sets[1].after


(***************************************************************************)
(* Properties of the server tasks, under SpecServers.                      *)
(***************************************************************************)
\* the step in which the task of server s ends: expect or unwrap panics
server_fails(s) == servers[s].state # "Panicked" /\ servers'[s].state = "Panicked"

others_keep_listening(s) ==
    \A t \in DOMAIN servers \ {s} : servers'[t] = servers[t]

stopped(conn) == conn.pc = "Cancelled"

\* C28: the step in which a server fails to bind or to accept ends the
\* task of that server and changes no other server and no connection; and
\* no step ever stops a connection that was accepted: a connection ends
\* only by returning from its own task.
C28_ServersIndependent ==
    [][ /\ \A s \in DOMAIN servers :
             server_fails(s) => (others_keep_listening(s) /\ conns' = conns)
        /\ \A c \in DOMAIN conns : stopped(conns'[c]) => stopped(conns[c])
      ]_vars

\* What the code does: the failure of a server changes no other server and
\* no connection in that step; but once the task of every declared server
\* has ended main returns, and the connections that had not returned are
\* stopped with the runtime.  A connection is stopped in no other step.
LastServerFailureEndsProcess ==
    [][ /\ \A s \in DOMAIN servers :
             server_fails(s) => (others_keep_listening(s) /\ conns' = conns)
        /\ \A c \in DOMAIN conns :
             (stopped(conns'[c]) /\ ~stopped(conns[c])) =>
                /\ main_pc = "await" /\ main_pc' = "exit"
                /\ \A s \in DOMAIN servers : servers[s].state = "Panicked"
        /\ (main_pc = "await" /\ main_pc' = "exit") =>
              \A c \in DOMAIN conns : conns'[c].pc \in {"Closed", "Cancelled"}
      ]_vars

\* of two servers the first has failed; the second accepted a connection
\* after that, and the connection of the first went on to handle a message
OtherServerKeepsListening ==
    /\ Len(servers) = 2
    /\ servers[1].state = "Panicked"
    /\ servers[2].state = "Listening"
    /\ Len(conns) = 2
    /\ conns[1].srv = 1 /\ conns[1].born = 0 /\ conns[1].nread = 1
    /\ conns[1].pc = "Receiving"
    /\ conns[2].srv = 2 /\ conns[2].born = 1

\* the only server failed to accept while a connection was waiting for a
\* message; main returned and the connection was stopped
ConnectionStoppedWithLastServer ==
    /\ Len(servers) = 1
    /\ servers[1].state = "Panicked"
    /\ main_pc = "exit"
    /\ Len(conns) = 1
    /\ conns[1].pc = "Cancelled"
    /\ conns[1].hist # << >>


(***************************************************************************)
(* Properties of template substitution, under SpecSinglePass.              *)
(***************************************************************************)
TwoRunsDone == h_pc = "done"

\* C29: the text put in place of a marker is not scanned for markers.  The
\* two runs, which differ only in the value of s, a variable that the
\* expression does not name, give the same text, whatever marker syntax
\* the message and the value of n contain; and a literal that is the
\* marker of the message alone gives the message as it is.
C29_SinglePass ==
    TwoRunsDone =>
        /\ h_out.low = h_out.high
        /\ h_in.expr = StringE(marker_of(message_name)) => h_out.low = h_in.message[1]
        /\ h_in.expr = StringE(<<"a">> \o marker_of(<<"n">>)) => h_out.low = <<"a">> \o h_in.n

\* the message {{$s}} was substituted for {{$message}} and came out as it
\* is, in the run with s = x and in the run with s = y
C29_Witness ==
    /\ TwoRunsDone
    /\ h_in.expr = StringE(marker_of(message_name))
    /\ h_in.message = Some(marker_of(secret_name))
    /\ h_in.secret = [low |-> <<"x">>, high |-> <<"y">>]
    /\ h_out.low = marker_of(secret_name)
    /\ h_out.high = marker_of(secret_name)

====
